---------------------------- MODULE Spec2Model ----------------------------
(***************************************************************************)
(* A model of the flo codec (libflo): the Rice codec, the fixed and LPC    *)
(* predictors, the lossless frame encoder and decoder, the container       *)
(* Writer and Reader, the lossy frame container path, and the streaming    *)
(* decoder's state machine over a partially received byte stream.          *)
(*                                                                         *)
(* Bytes are naturals 0..255 and a file is a sequence of bytes.  An f32    *)
(* sample s is represented by the integer m with s = m / (32767 * Sub):    *)
(* the model keeps Sub steps between two neighbouring 16-bit levels, so    *)
(* the quantisation f32 -> i32 truncates and i32 -> f32 does not undo it.  *)
(* All sizes in the modelled files are far below 2^31.                     *)
(***************************************************************************)
EXTENDS Integers, Sequences, FiniteSets, TLC

(***************************************************************************)
(* Bounds of the model.                                                    *)
(***************************************************************************)
\* f32 steps kept between two neighbouring 16-bit levels
Sub == 2
\* largest number of interleaved samples of an input of the streamed files
MaxSamples == 3
\* MDCT coefficients of a long and of a short block (1024 and 128 in the source)
LongCoefficients == 2
ShortCoefficients == 1

(***************************************************************************)
(* Byte and integer helpers.                                               *)
(***************************************************************************)
Min(a, b) == IF a < b THEN a ELSE b
Max(a, b) == IF a > b THEN a ELSE b
Abs(a) == IF a < 0 THEN -a ELSE a

RECURSIVE Pow2(_)
Pow2(n) == IF n = 0 THEN 1 ELSE 2 * Pow2(n - 1)

\* number of significant bits of v >= 0 (64 - leading_zeros for a u64)
RECURSIVE BitLen(_)
BitLen(v) == IF v = 0 THEN 0 ELSE 1 + BitLen(v \div 2)

\* s[from+1 .. from+n] in 0-based, Rust slice terms: data[from .. from+n]
Slice(s, from, n) == SubSeq(s, from + 1, from + n)

RECURSIVE Flatten(_)
Flatten(ss) == IF ss = <<>> THEN <<>> ELSE Head(ss) \o Flatten(Tail(ss))

Zeros(n) == IF n <= 0 THEN <<>> ELSE [i \in 1..n |-> 0]

\* v.to_le_bytes() for an unsigned integer of n bytes
RECURSIVE ToLe(_, _)
ToLe(v, n) == IF n = 0 THEN <<>> ELSE <<v % 256>> \o ToLe(v \div 256, n - 1)

\* every value from Huge up is read as Huge: it is beyond every length, count
\* and limit of the files modelled, and sums of a few such values stay exact
Huge == Pow2(28)

\* uN::from_le_bytes(bytes)
RECURSIVE FromLe(_)
FromLe(bytes) ==
    IF bytes = <<>> THEN 0
    ELSE LET hi == FromLe(Tail(bytes))
         IN  IF hi = 0 THEN Head(bytes)
             ELSE IF hi >= Huge \div 256 THEN Huge
             ELSE Head(bytes) + 256 * hi

\* (s as i16).to_le_bytes() and i16::from_le_bytes
I16ToLe(s) == ToLe((s + 65536) % 65536, 2)
I16FromLe(b) == LET u == FromLe(b) IN IF u >= 32768 THEN u - 65536 ELSE u
\* i32 to_le_bytes / from_le_bytes; the coefficients of the model fit 24 bits
I32ToLe(s) == IF s >= 0 THEN ToLe(s, 4) ELSE ToLe(s + 16777216, 3) \o <<255>>
I32FromLe(b) == IF b[4] >= 128 THEN FromLe(SubSeq(b, 1, 3)) - 16777216 + (b[4] - 255) * 16777216
                ELSE FromLe(b)

(***************************************************************************)
(* core/audio_constants.rs                                                 *)
(***************************************************************************)
I16_MAX == 32767
I16_MIN == -32768

\* truncating division toward zero, Rust's `as i32` and integer `/`
TruncDiv(a, b) == IF a >= 0 THEN a \div b ELSE -((-a) \div b)

f32_to_i32(m) == Max(I16_MIN, Min(I16_MAX, TruncDiv(m, Sub)))
i32_to_f32(i) == i * Sub

(***************************************************************************)
(* core/rice.rs: bit writer, bit reader, Rice codec.                       *)
(***************************************************************************)
\* BitWriter::into_bytes: pack MSB-first, the last byte padded with zeros
RECURSIVE PackBits(_)
PackBits(bits) ==
    IF bits = <<>> THEN <<>>
    ELSE LET b == IF Len(bits) < 8 THEN bits \o Zeros(8 - Len(bits)) ELSE bits
         IN  <<128 * b[1] + 64 * b[2] + 32 * b[3] + 16 * b[4]
               + 8 * b[5] + 4 * b[6] + 2 * b[7] + b[8]>>
             \o (IF Len(bits) <= 8 THEN <<>> ELSE PackBits(SubSeq(bits, 9, Len(bits))))

\* BitReader::read_bit at absolute bit position pos (0-based); 0 past the end
ReadBit(bytes, pos) ==
    IF pos \div 8 >= Len(bytes) THEN 0
    ELSE (bytes[pos \div 8 + 1] \div Pow2(7 - (pos % 8))) % 2

IsExhausted(bytes, pos) == pos \div 8 >= Len(bytes)

Ones(n) == IF n <= 0 THEN <<>> ELSE [i \in 1..n |-> 1]

\* the k low bits of r, MSB first
RECURSIVE BitsOf(_, _)
BitsOf(r, k) == IF k = 0 THEN <<>> ELSE <<(r \div Pow2(k - 1)) % 2>> \o BitsOf(r, k - 1)

\* ((sample << 1) ^ (sample >> 31)) as u32
ZigZag(s) == IF s >= 0 THEN 2 * s ELSE -2 * s - 1
\* ((unsigned >> 1) as i32) ^ (-((unsigned & 1) as i32))
UnZigZag(u) == IF u % 2 = 0 THEN u \div 2 ELSE -(u \div 2) - 1

RiceQuotientCap == 255

encode_sample(sample, k) ==
    LET unsigned == ZigZag(sample)
        quotient == unsigned \div Pow2(k)
        remainder == unsigned % Pow2(k)
    IN  Ones(Min(quotient, RiceQuotientCap)) \o <<0>> \o BitsOf(remainder, k)

RECURSIVE EncodeBits(_, _)
EncodeBits(residuals, k) ==
    IF residuals = <<>> THEN <<>>
    ELSE encode_sample(Head(residuals), k) \o EncodeBits(Tail(residuals), k)

encode_i32(residuals, k) == PackBits(EncodeBits(residuals, k))

\* the unary part: returns <<quotient, new position>>.  The loop stops at the
\* end of the buffer, at a 0 bit (consumed), or once the quotient exceeds the cap.
UnaryRun(bytes, pos) ==
    CHOOSE q \in 0..(RiceQuotientCap + 1) :
        /\ \A j \in 0..(q - 1) : ~IsExhausted(bytes, pos + j) /\ ReadBit(bytes, pos + j) = 1
        /\ \/ q = RiceQuotientCap + 1
           \/ IsExhausted(bytes, pos + q)
           \/ ReadBit(bytes, pos + q) = 0

ReadUnary(bytes, pos) ==
    LET q == UnaryRun(bytes, pos)
    IN  IF q = RiceQuotientCap + 1 \/ IsExhausted(bytes, pos + q)
        THEN <<q, pos + q>>
        ELSE <<q, pos + q + 1>>

\* read k bits past the end of the buffer leaves the position at the end
AdvanceBits(bytes, pos, k) == Min(pos + k, Max(pos, 8 * Len(bytes)))

RECURSIVE ReadBits(_, _, _)
ReadBits(bytes, pos, k) ==
    IF k = 0 THEN 0 ELSE 2 * ReadBits(bytes, pos, k - 1) + ReadBit(bytes, pos + k - 1)

RECURSIVE DecodeFrom(_, _, _, _)
DecodeFrom(bytes, k, pos, n) ==
    IF n = 0 THEN <<>>
    ELSE IF IsExhausted(bytes, pos) THEN <<0>> \o DecodeFrom(bytes, k, pos, n - 1)
    ELSE LET u == ReadUnary(bytes, pos)
             remainder == ReadBits(bytes, u[2], k)
             unsigned == u[1] * Pow2(k) + remainder
         IN  <<UnZigZag(unsigned)>>
             \o DecodeFrom(bytes, k, AdvanceBits(bytes, u[2], k), n - 1)

decode_i32(encoded, k, target_len) == DecodeFrom(encoded, k, 0, target_len)

RECURSIVE SumAbs(_)
SumAbs(r) == IF r = <<>> THEN 0 ELSE Abs(Head(r)) + SumAbs(Tail(r))

RECURSIVE MaxAbs(_)
MaxAbs(r) == IF r = <<>> THEN 0 ELSE Max(Abs(Head(r)), MaxAbs(Tail(r)))

estimate_rice_parameter_i32(residuals) ==
    IF residuals = <<>> THEN 4
    ELSE LET max_abs == MaxAbs(residuals)
             max_unsigned == 2 * max_abs
             min_k == IF max_unsigned > 255 THEN Max(0, BitLen(max_unsigned) - 8) ELSE 0
             mean == SumAbs(residuals) \div Len(residuals)
             mean_k == IF mean > 0 THEN BitLen(mean) ELSE 0
         IN  IF max_abs = 0 THEN 0 ELSE Min(15, Max(min_k, mean_k))

(***************************************************************************)
(* lossless/lpc.rs: fixed predictors and integer LPC.  The samples of the  *)
(* model are 16-bit, so no 32-bit operation of these functions wraps.      *)
(***************************************************************************)
\* 0-based indexing into a sequence, as in the source
At(s, i) == s[i + 1]

\* the residual written at index i by fixed_predictor_residuals(samples, order)
FixedResidualAt(s, i, order) ==
    CASE order = 0 \/ order > 4 \/ i = 0 -> At(s, i)
      [] order = 1 \/ i = 1 -> At(s, i) - At(s, i - 1)
      [] order = 2 \/ i = 2 -> At(s, i) - 2 * At(s, i - 1) + At(s, i - 2)
      [] order = 3 \/ i = 3 -> At(s, i) - 3 * At(s, i - 1) + 3 * At(s, i - 2) - At(s, i - 3)
      [] OTHER -> At(s, i) - 4 * At(s, i - 1) + 6 * At(s, i - 2) - 4 * At(s, i - 3)
                  + At(s, i - 4)

fixed_predictor_residuals(samples, order) ==
    [i \in 1..Len(samples) |-> FixedResidualAt(samples, i - 1, order)]

autocorr_int(samples, order) ==
    [lag1 \in 1..(order + 1) |->
        LET lag == lag1 - 1
            RECURSIVE Acc(_)
            Acc(i) == IF i >= Len(samples) THEN 0
                      ELSE At(samples, i) * At(samples, i - lag) + Acc(i + 1)
        IN  Acc(lag)]

\* levinson_durbin_int solves for the coefficients in f64, which the model does
\* not compute: apart from the autocorr[0] == 0 exit its result is the outcome
\* `lpc`: None, or the first coefficient, the other coefficients and the shift.
None == [ok |-> FALSE]
LpcOutcome(first, rest, shift) == [ok |-> TRUE, first |-> first, rest |-> rest, shift |-> shift]

levinson_durbin_int(autocorr, order, lpc) ==
    IF autocorr = <<>> \/ autocorr[1] = 0 \/ ~lpc.ok THEN None
    ELSE [ok |-> TRUE,
          coeffs |-> [j \in 1..order |-> IF j = 1 THEN lpc.first ELSE lpc.rest],
          shift |-> lpc.shift]

\* sum over j of coeffs[j] * samples[i - j - 1]
RECURSIVE Prediction(_, _, _, _)
Prediction(coeffs, samples, i, j) ==
    IF j >= Len(coeffs) THEN 0
    ELSE At(coeffs, j) * At(samples, i - j - 1) + Prediction(coeffs, samples, i, j + 1)

calc_residuals_int(samples, coeffs, shift, order) ==
    [i1 \in 1..Len(samples) |->
        LET i == i1 - 1
        IN  IF i < order THEN At(samples, i)
            ELSE At(samples, i) - (Prediction(coeffs, samples, i, 0) \div Pow2(shift))]

(***************************************************************************)
(* core/types.rs                                                           *)
(***************************************************************************)
FT_Silence == 0
FT_Transform == 253
FT_Raw == 254
FT_Reserved == 255
RE_Rice == 0
RE_Golomb == 1
RE_Raw == 2
MaxLpcOrder == 12

\* FrameType::from(u8) as the discriminant the match arms compare
FrameTypeFrom(v) == IF v <= MaxLpcOrder \/ v = FT_Transform \/ v = FT_Raw THEN v ELSE FT_Reserved
is_alpc(ft) == ft >= 1 /\ ft <= MaxLpcOrder
from_order(order) == IF order >= 1 /\ order <= MaxLpcOrder THEN order ELSE 8
ResidualEncodingFrom(v) == IF v = 0 THEN RE_Rice ELSE IF v = 1 THEN RE_Golomb ELSE RE_Raw

ChannelData(coeffs, shift, enc, k, residuals) ==
    [predictor_coeffs |-> coeffs, shift_bits |-> shift, residual_encoding |-> enc,
     rice_parameter |-> k, residuals |-> residuals]
new_silence == ChannelData(<<>>, 0, RE_Rice, 0, <<>>)
new_raw(data) == ChannelData(<<>>, 0, RE_Raw, 0, data)

Frame(ft, n, flags, chans) ==
    [frame_type |-> ft, frame_samples |-> n, flags |-> flags, channels |-> chans]

(***************************************************************************)
(* lossless/encoder.rs                                                     *)
(***************************************************************************)
lpc_order_from_level(level) ==
    CASE level = 0 -> 0
      [] level = 1 -> 2
      [] level \in {2, 3} -> 4
      [] level = 4 -> 6
      [] level \in {5, 6} -> 8
      [] level = 7 -> 10
      [] OTHER -> 12

encode_raw(samples) == new_raw(Flatten([i \in 1..Len(samples) |-> I16ToLe(samples[i])]))

try_fixed_predictor(samples, order) ==
    LET residuals == fixed_predictor_residuals(samples, order)
        k == estimate_rice_parameter_i32(residuals)
        encoded == encode_i32(residuals, k)
    IN  [ok |-> TRUE, data |-> ChannelData(<<>>, 128 + order, RE_Rice, k, encoded),
         size |-> Len(encoded), order |-> order]

LpcResidualLimit == 1000000

try_lpc_predictor(samples, order, lpc) ==
    IF Len(samples) <= order THEN None
    ELSE LET ld == levinson_durbin_int(autocorr_int(samples, order), order, lpc)
         IN  IF ~ld.ok THEN None
             ELSE LET residuals == calc_residuals_int(samples, ld.coeffs, ld.shift, order)
                      k == estimate_rice_parameter_i32(residuals)
                      encoded == encode_i32(residuals, k)
                  IN  IF MaxAbs(residuals) > LpcResidualLimit THEN None
                      ELSE [ok |-> TRUE,
                            data |-> ChannelData(ld.coeffs, ld.shift, RE_Rice, k, encoded),
                            size |-> Len(encoded), order |-> order]

\* the candidates in the order encode_channel_int tries them
Candidates(samples, max_order, level, lpc) ==
    <<[ok |-> TRUE, data |-> encode_raw(samples),
       size |-> Len(encode_raw(samples).residuals), order |-> 0]>>
    \o [o1 \in 1..(Min(4, max_order) + 1) |-> try_fixed_predictor(samples, o1 - 1)]
    \o (IF level >= 3 /\ max_order > 4
        THEN [o \in 1..(max_order - 4) |-> try_lpc_predictor(samples, o + 4, lpc)]
        ELSE <<>>)

\* keep the first candidate of strictly smallest size
RECURSIVE PickBest(_, _)
PickBest(cands, best) ==
    IF cands = <<>> THEN best
    ELSE IF Head(cands).ok /\ Head(cands).size < best.size
         THEN PickBest(Tail(cands), Head(cands))
         ELSE PickBest(Tail(cands), best)

\* returns [data, size, order]: the channel blob and order_used
encode_channel_int(samples, max_order, level, lpc) ==
    IF samples = <<>> THEN [ok |-> TRUE, data |-> new_silence, size |-> 0, order |-> 0]
    ELSE LET c == Candidates(samples, max_order, level, lpc)
         IN  PickBest(Tail(c), Head(c))

\* samples_i32.iter().skip(ch).step_by(channels)
Deinterleave(samples, channels, ch) ==
    LET n == IF Len(samples) > ch THEN (Len(samples) - ch + channels - 1) \div channels ELSE 0
    IN  [i \in 1..n |-> samples[(i - 1) * channels + ch + 1]]

\* i64 arithmetic on [hi, lo] pairs in base 65536 (value = hi * 65536 + lo)
WideSq(x) ==
    LET a == Abs(x)
        t == 2 * (a \div 256) * (a % 256) * 256 + (a % 256) * (a % 256)
    IN  [hi |-> (a \div 256) * (a \div 256) + t \div 65536, lo |-> t % 65536]

WideAdd(a, b) == [hi |-> a.hi + b.hi + (a.lo + b.lo) \div 65536, lo |-> (a.lo + b.lo) % 65536]

WideHalf(a) == [hi |-> a.hi \div 2, lo |-> ((a.hi % 2) * 65536 + a.lo) \div 2]

WideLess(a, b) == a.hi < b.hi \/ (a.hi = b.hi /\ a.lo < b.lo)

RECURSIVE SumSq(_)
SumSq(s) == IF s = <<>> THEN [hi |-> 0, lo |-> 0] ELSE WideAdd(WideSq(Head(s)), SumSq(Tail(s)))

ZipLen(a, b) == Min(Len(a), Len(b))

should_use_mid_side(left, right) ==
    LET n == ZipLen(left, right)
        var_l == SumSq(SubSeq(left, 1, n))
        var_r == SumSq(SubSeq(right, 1, n))
        var_side == SumSq([i \in 1..n |-> left[i] - right[i]])
    IN  WideLess(var_side, WideHalf(WideAdd(var_l, var_r)))

to_mid_side(left, right) ==
    <<[i \in 1..ZipLen(left, right) |-> left[i] + right[i]],
      [i \in 1..ZipLen(left, right) |-> left[i] - right[i]]>>

\* the frame type of a non-silent frame from the channels' order_used
FrameTypeOf(orders, lpc_order) ==
    IF \A i \in 1..Len(orders) : ~(orders[i] > 0) THEN FT_Raw ELSE from_order(lpc_order)

encode_frame(samples, channels, level, lpc) ==
    LET num_samples == Len(samples) \div channels
    IN  IF \A i \in 1..Len(samples) : samples[i] = 0
        THEN Frame(FT_Silence, num_samples, 0, [c \in 1..channels |-> new_silence])
        ELSE LET samples_i32 == [i \in 1..Len(samples) |-> f32_to_i32(samples[i])]
                 plain == [c \in 1..channels |-> Deinterleave(samples_i32, channels, c - 1)]
                 use_mid_side == channels = 2 /\ should_use_mid_side(plain[1], plain[2])
                 channel_data == IF use_mid_side THEN to_mid_side(plain[1], plain[2]) ELSE plain
                 lpc_order == lpc_order_from_level(level)
                 enc == [c \in 1..channels |->
                            encode_channel_int(channel_data[c], lpc_order, level, lpc)]
             IN  Frame(FrameTypeOf([c \in 1..channels |-> enc[c].order], lpc_order),
                       num_samples, IF use_mid_side THEN 1 ELSE 0,
                       [c \in 1..channels |-> enc[c].data])

\* ceiling division, usize::div_ceil
DivCeil(a, b) == (a + b - 1) \div b

encode_frames(samples, samples_per_frame, channels, level, lpc) ==
    LET total_samples == Len(samples) \div channels
        num_frames == DivCeil(total_samples, samples_per_frame)
    IN  [f \in 1..num_frames |->
            LET start == (f - 1) * samples_per_frame * channels
                stop == Min(f * samples_per_frame * channels, Len(samples))
            IN  encode_frame(SubSeq(samples, start + 1, stop), channels, level, lpc)]

(***************************************************************************)
(* core/crc32.rs: CRC-32, reflected IEEE polynomial 0xEDB88320, initial    *)
(* value and final XOR 0xFFFFFFFF.  The register is a sequence of 32 bits, *)
(* least significant first.                                                *)
(***************************************************************************)
Xor(a, b) == IF a = b THEN 0 ELSE 1

RECURSIVE XorBits(_, _, _)
XorBits(a, b, n) ==
    IF n = 0 THEN 0 ELSE Xor(a % 2, b % 2) + 2 * XorBits(a \div 2, b \div 2, n - 1)

\* 0xEDB88320 as its high and low 16 bits
CrcPoly == [hi |-> 60856, lo |-> 33568]

CrcShift(reg) ==
    LET hi == reg.hi \div 2
        lo == (reg.lo \div 2) + 32768 * (reg.hi % 2)
    IN  IF reg.lo % 2 = 1
        THEN [hi |-> XorBits(hi, CrcPoly.hi, 16), lo |-> XorBits(lo, CrcPoly.lo, 16)]
        ELSE [hi |-> hi, lo |-> lo]

CrcByte(reg, byte) ==
    LET x == [hi |-> reg.hi, lo |-> XorBits(reg.lo, byte, 16)]
    IN  CrcShift(CrcShift(CrcShift(CrcShift(CrcShift(CrcShift(CrcShift(CrcShift(x))))))))

RECURSIVE CrcFold(_, _, _, _)
CrcFold(reg, data, from, to) ==
    IF from > to \/ reg.hi < 0 THEN reg
    ELSE IF from = to THEN CrcByte(reg, data[from])
    ELSE CrcFold(CrcFold(reg, data, from, (from + to) \div 2), data,
                 ((from + to) \div 2) + 1, to)

\* crc32::compute(data).to_le_bytes()
Crc32Le(data) ==
    LET reg == CrcFold([hi |-> 65535, lo |-> 65535], data, 1, Len(data))
    IN  ToLe(65535 - reg.lo, 2) \o ToLe(65535 - reg.hi, 2)

(***************************************************************************)
(* writer.rs                                                               *)
(***************************************************************************)
MAGIC == <<70, 76, 79, 33>>
HEADER_SIZE == 66
VERSION_MAJOR == 1
VERSION_MINOR == 0
\* bytes of a TOC entry and of the fixed part of a file (magic + header)
TocEntrySize == 20
HeaderEnd == 70

write_channel_data(ch_data, frame_type) ==
    CASE frame_type = FT_Silence -> <<>>
      [] frame_type = FT_Raw -> ch_data.residuals
      [] frame_type = FT_Transform -> ch_data.residuals
      [] is_alpc(frame_type) ->
            <<Len(ch_data.predictor_coeffs) % 256>>
            \o Flatten([i \in 1..Len(ch_data.predictor_coeffs) |->
                            I32ToLe(ch_data.predictor_coeffs[i])])
            \o <<ch_data.shift_bits, ch_data.residual_encoding>>
            \o (IF ch_data.residual_encoding = RE_Rice THEN <<ch_data.rice_parameter>>
                ELSE <<>>)
            \o ch_data.residuals
      [] OTHER -> <<>>

write_frame(frame) ==
    LET frame_type == FrameTypeFrom(frame.frame_type)
    IN  <<frame.frame_type>> \o ToLe(frame.frame_samples, 4) \o <<frame.flags>>
        \o Flatten([c \in 1..Len(frame.channels) |->
                LET ch_buffer == write_channel_data(frame.channels[c], frame_type)
                IN  ToLe(Len(ch_buffer), 4) \o ch_buffer])

\* Frame::byte_size (core/types.rs)
ChannelByteSize(ch, frame_type) ==
    4 + (CASE frame_type = FT_Transform -> Len(ch.residuals)
           [] is_alpc(frame_type) ->
                1 + 4 * Len(ch.predictor_coeffs) + 1 + 1
                + (IF ch.residual_encoding = RE_Rice THEN 1 ELSE 0) + Len(ch.residuals)
           [] frame_type = FT_Raw -> Len(ch.residuals)
           [] OTHER -> 0)

RECURSIVE SumSeq(_)
SumSeq(s) == IF s = <<>> THEN 0 ELSE Head(s) + SumSeq(Tail(s))

\* byte_size that leaves out the Rice parameter byte of a channel
byte_size_forgets_rice(frame) ==
    6 + SumSeq([c \in 1..Len(frame.channels) |->
                    ChannelByteSize(frame.channels[c], FrameTypeFrom(frame.frame_type))
                    - (IF is_alpc(FrameTypeFrom(frame.frame_type))
                          /\ frame.channels[c].residual_encoding = RE_Rice
                       THEN 1 ELSE 0)])

byte_size(frame) ==
    6 + SumSeq([c \in 1..Len(frame.channels) |->
                    ChannelByteSize(frame.channels[c], FrameTypeFrom(frame.frame_type))])

build_data_chunk(frames) == Flatten([i \in 1..Len(frames) |-> write_frame(frames[i])])

build_toc_chunk(frames) ==
    ToLe(Len(frames), 4)
    \o Flatten([i1 \in 1..Len(frames) |->
            LET byte_offset == SumSeq([j \in 1..(i1 - 1) |-> byte_size(frames[j])])
            IN  ToLe(i1 - 1, 4) \o ToLe(byte_offset, 8) \o ToLe(byte_size(frames[i1]), 4)
                \o ToLe((i1 - 1) * 1000, 4)])

write_header_ex(sample_rate, channels, bit_depth, level, total_frames, crc_le, flags, toc_size, data_size, extra_size, meta_size) ==
    MAGIC \o <<VERSION_MAJOR, VERSION_MINOR>> \o ToLe(flags, 2) \o ToLe(sample_rate, 4)
    \o <<channels, bit_depth>> \o ToLe(total_frames, 8) \o <<level>> \o <<0, 0, 0>>
    \o crc_le \o ToLe(HEADER_SIZE, 8) \o ToLe(toc_size, 8) \o ToLe(data_size, 8)
    \o ToLe(extra_size, 8) \o ToLe(meta_size, 8)

write_ex(sample_rate, channels, bit_depth, level, lossy, lossy_quality, frames, metadata) ==
    LET toc_size == 4 + Len(frames) * TocEntrySize
        data_chunk == build_data_chunk(frames)
        flags == IF lossy THEN 1 + 256 * lossy_quality ELSE 0
    IN  write_header_ex(sample_rate, channels, bit_depth, level, Len(frames),
                        Crc32Le(data_chunk), flags, toc_size, Len(data_chunk), 0,
                        Len(metadata))
        \o build_toc_chunk(frames) \o data_chunk \o metadata

\* Encoder::encode (lossless/encoder.rs)
Encode(samples, sample_rate, channels, bit_depth, level, lpc, metadata) ==
    write_ex(sample_rate, channels, bit_depth, level, FALSE, 0,
             encode_frames(samples, sample_rate, channels, level, lpc), metadata)

(***************************************************************************)
(* reader.rs: a parse is a record with ok = TRUE, or Err.  A cursor is the *)
(* pair of the data and a position counted from 0.                         *)
(***************************************************************************)
Err == [ok |-> FALSE]

MaxFrameSamples == 2000000
MaxTocEntries == 100000

U32At(data, pos) == FromLe(Slice(data, pos, 4))
U64At(data, pos) == FromLe(Slice(data, pos, 8))

\* Reader::read_header, on the 66 bytes that follow the magic
read_header(data) ==
    [version_major |-> data[5], version_minor |-> data[6],
     flags |-> FromLe(Slice(data, 6, 2)), sample_rate |-> U32At(data, 8),
     channels |-> data[13], bit_depth |-> data[14], total_frames |-> U64At(data, 14),
     compression_level |-> data[23], data_crc32 |-> Slice(data, 26, 4),
     header_size |-> U64At(data, 30), toc_size |-> U64At(data, 38),
     data_size |-> U64At(data, 46), extra_size |-> U64At(data, 54),
     meta_size |-> U64At(data, 62)]

TocEntryAt(data, pos) ==
    [frame_index |-> U32At(data, pos), byte_offset |-> U64At(data, pos + 4),
     frame_size |-> U32At(data, pos + 12), timestamp_ms |-> U32At(data, pos + 16)]

\* the cursor stands at HeaderEnd; the result carries the cursor's new position
read_toc(data, toc_size) ==
    IF toc_size < 4 THEN [ok |-> TRUE, entries |-> <<>>, pos |-> HeaderEnd]
    ELSE IF HeaderEnd + 4 > Len(data) THEN Err
    ELSE LET num_entries == U32At(data, HeaderEnd)
         IN  IF num_entries > MaxTocEntries THEN Err
             ELSE IF HeaderEnd + 4 + TocEntrySize * num_entries > Len(data) THEN Err
             ELSE [ok |-> TRUE,
                   entries |-> [i \in 1..num_entries |->
                        TocEntryAt(data, HeaderEnd + 4 + TocEntrySize * (i - 1))],
                   pos |-> HeaderEnd + 4 + TocEntrySize * num_entries]

read_channel_data(data, pos, frame_type, frame_samples, channel_end) ==
    IF frame_samples > MaxFrameSamples THEN Err
    ELSE CASE frame_type = FT_Silence -> [ok |-> TRUE, ch |-> new_silence]
      [] frame_type = FT_Raw ->
            LET bytes_to_read == Min(frame_samples * 2, Max(0, channel_end - pos))
            IN  IF pos + bytes_to_read > Len(data) THEN Err
                ELSE [ok |-> TRUE, ch |-> new_raw(Slice(data, pos, bytes_to_read))]
      [] frame_type = FT_Transform ->
            LET remaining == Max(0, channel_end - pos)
            IN  IF pos + remaining > Len(data) THEN Err
                ELSE [ok |-> TRUE,
                      ch |-> ChannelData(<<>>, 0, RE_Raw, 0, Slice(data, pos, remaining))]
      [] is_alpc(frame_type) ->
            IF pos >= Len(data) THEN Err
            ELSE LET order == data[pos + 1]
                     ncoef == Min(order, Max(0, (channel_end - (pos + 1)) \div 4))
                     p2 == pos + 1 + 4 * ncoef
                 IN  IF order > MaxLpcOrder THEN Err
                     ELSE IF p2 + 2 > Len(data) THEN Err
                     ELSE LET residual_encoding == ResidualEncodingFrom(data[p2 + 2])
                              is_rice == residual_encoding = RE_Rice
                              p3 == p2 + 2 + (IF is_rice THEN 1 ELSE 0)
                              remaining == Max(0, channel_end - p3)
                          IN  IF p3 + remaining > Len(data) THEN Err
                              ELSE [ok |-> TRUE,
                                    ch |-> ChannelData(
                                        [i \in 1..ncoef |->
                                            I32FromLe(Slice(data, pos + 1 + 4 * (i - 1), 4))],
                                        data[p2 + 1], residual_encoding,
                                        IF is_rice THEN data[p2 + 3] ELSE 0,
                                        Slice(data, p3, remaining))]
      [] OTHER -> [ok |-> TRUE, ch |-> new_silence]

RECURSIVE ReadChannels(_, _, _, _, _, _)
ReadChannels(data, pos, frame_type, frame_samples, n, acc) ==
    LET Rest(ch_end, r) ==
            IF ~r.ok THEN Err
            ELSE ReadChannels(data, ch_end, frame_type, frame_samples, n - 1,
                              Append(acc, r.ch))
        Channel(ch_end) ==
            Rest(ch_end, read_channel_data(data, pos + 4, frame_type, frame_samples, ch_end))
    IN  IF n = 0 THEN [ok |-> TRUE, channels |-> acc]
        ELSE IF pos + 4 > Len(data) THEN Err
        ELSE Channel(pos + 4 + U32At(data, pos))

read_frame(data, pos, channels, frame_size) ==
    LET Build(r) ==
            IF ~r.ok THEN Err
            ELSE [ok |-> TRUE,
                  frame |-> Frame(data[pos + 1], U32At(data, pos + 1), data[pos + 6],
                                  r.channels)]
        Channels(frame_type) ==
            Build(ReadChannels(data, pos + 6, frame_type, U32At(data, pos + 1),
                               IF frame_type = FT_Transform THEN 1 ELSE channels, <<>>))
    IN  IF pos + 6 > Len(data) THEN Err ELSE Channels(FrameTypeFrom(data[pos + 1]))

RECURSIVE ReadFrames(_, _, _, _, _, _, _)
ReadFrames(data, data_start, data_end, channels, toc, i, acc) ==
    LET Rest(r) ==
            IF ~r.ok THEN Err
            ELSE ReadFrames(data, data_start, data_end, channels, toc, i + 1,
                            Append(acc, r.frame))
    IN  IF i > Len(toc) THEN [ok |-> TRUE, frames |-> acc]
        ELSE IF data_start + toc[i].byte_offset >= data_end
        THEN [ok |-> TRUE, frames |-> acc]
        ELSE Rest(read_frame(data, data_start + toc[i].byte_offset, channels,
                             toc[i].frame_size))

read_data_chunk(data, pos, data_size, channels, toc) ==
    ReadFrames(data, pos, pos + data_size, channels, toc, 1, <<>>)

\* Reader::read that returns the metadata bytes there are when the file ends early
read_short_metadata(data) ==
    LET Metadata(header, t, f, meta_pos) ==
            IF meta_pos > Len(data) THEN Err
            ELSE [ok |-> TRUE, header |-> header, toc |-> t.entries, frames |-> f.frames,
                  metadata |->
                    Slice(data, meta_pos, Min(header.meta_size, Len(data) - meta_pos))]
        Data(header, t, f) ==
            IF ~f.ok THEN Err
            ELSE Metadata(header, t, f,
                          Min(t.pos + header.data_size + header.extra_size, Len(data)))
        Toc(header, t) ==
            IF ~t.ok THEN Err
            ELSE Data(header, t,
                      read_data_chunk(data, t.pos, header.data_size, header.channels,
                                      t.entries))
        Header(header) == Toc(header, read_toc(data, header.toc_size))
    IN  IF Len(data) < 4 THEN Err
        ELSE IF Slice(data, 0, 4) # MAGIC THEN Err
        ELSE IF Len(data) < HeaderEnd THEN Err
        ELSE Header(read_header(data))

\* Reader::read
read(data) ==
    LET Metadata(header, t, f, meta_pos) ==
            IF meta_pos + header.meta_size > Len(data) THEN Err
            ELSE [ok |-> TRUE, header |-> header, toc |-> t.entries, frames |-> f.frames,
                  metadata |-> Slice(data, meta_pos, header.meta_size)]
        Data(header, t, f) ==
            IF ~f.ok THEN Err
            ELSE Metadata(header, t, f,
                          Min(t.pos + header.data_size + header.extra_size, Len(data)))
        Toc(header, t) ==
            IF ~t.ok THEN Err
            ELSE Data(header, t,
                      read_data_chunk(data, t.pos, header.data_size, header.channels,
                                      t.entries))
        Header(header) == Toc(header, read_toc(data, header.toc_size))
    IN  IF Len(data) < 4 THEN Err
        ELSE IF Slice(data, 0, 4) # MAGIC THEN Err
        ELSE IF Len(data) < HeaderEnd THEN Err
        ELSE Header(read_header(data))

(***************************************************************************)
(* lossless/decoder.rs.  reconstruct_fixed and decode_mid_side have the    *)
(* same body in streaming/decoder.rs and are shared by both decoders.      *)
(***************************************************************************)
\* i16 pairs of a raw channel, zero-padded up to frame_samples
RawPcm(residuals, frame_samples) ==
    LET pairs == [i \in 1..(Len(residuals) \div 2) |->
                    I16FromLe(Slice(residuals, 2 * (i - 1), 2))]
    IN  pairs \o Zeros(frame_samples - Len(pairs))

FloorShift(v, shift) == IF v >= 0 THEN v \div Pow2(shift) ELSE -((-v + Pow2(shift) - 1) \div Pow2(shift))

RECURSIVE FixedSamples(_, _, _, _)
FixedSamples(order, residuals, upto, acc) ==
    LET i == Len(acc)
        eff == Min(order, i)
        pred == CASE eff = 0 -> 0
                  [] eff = 1 -> acc[i]
                  [] eff = 2 -> 2 * acc[i] - acc[i - 1]
                  [] eff = 3 -> 3 * acc[i] - 3 * acc[i - 1] + acc[i - 2]
                  [] OTHER -> 4 * acc[i] - 6 * acc[i - 1] + 4 * acc[i - 2] - acc[i - 3]
    IN  IF i >= upto THEN acc
        ELSE FixedSamples(order, residuals, upto, Append(acc, residuals[i + 1] + pred))

reconstruct_fixed(order, residuals, target_len) ==
    IF residuals = <<>> THEN Zeros(target_len)
    ELSE LET samples ==
                IF order \in 1..4
                THEN FixedSamples(order, residuals,
                                  Max(Min(order, Len(residuals)),
                                      Min(Len(residuals), target_len)), <<>>)
                ELSE residuals
         IN  samples \o Zeros(target_len - Len(samples))

RECURSIVE LpcSamples(_, _, _, _, _)
LpcSamples(coeffs, residuals, shift, upto, acc) ==
    LET i == Len(acc)
    IN  IF i >= upto THEN acc
        ELSE LpcSamples(coeffs, residuals, shift, upto,
                Append(acc, FloorShift(SumSeq([j \in 1..Len(coeffs) |->
                                                coeffs[j] * acc[i - j + 1]]), shift)
                            + residuals[i + 1]))

reconstruct_lpc_int(coeffs, residuals, shift, order, target_len) ==
    LET actual_len == Min(target_len, Len(residuals))
        warmup == SubSeq(residuals, 1, Min(order, actual_len))
        samples == LpcSamples(coeffs, residuals, shift, actual_len, warmup)
    IN  samples \o Zeros(target_len - Len(samples))

decode_mid_side(mid, side) ==
    [left |-> [i \in 1..Min(Len(mid), Len(side)) |-> TruncDiv(mid[i] + side[i], 2)],
     right |-> [i \in 1..Min(Len(mid), Len(side)) |-> TruncDiv(mid[i] - side[i], 2)]]

decode_channel_int(ch_data, frame_samples) ==
    LET has_coeffs == ch_data.predictor_coeffs # <<>>
        has_residuals == ch_data.residuals # <<>>
    IN  IF ~has_coeffs /\ has_residuals /\ ch_data.shift_bits >= 128
        THEN reconstruct_fixed(ch_data.shift_bits - 128,
                decode_i32(ch_data.residuals, ch_data.rice_parameter, frame_samples),
                frame_samples)
        ELSE IF has_coeffs
        THEN reconstruct_lpc_int(ch_data.predictor_coeffs,
                decode_i32(ch_data.residuals, ch_data.rice_parameter, frame_samples),
                ch_data.shift_bits, Len(ch_data.predictor_coeffs), frame_samples)
        ELSE IF has_residuals THEN RawPcm(ch_data.residuals, frame_samples)
        ELSE Zeros(frame_samples)

\* channel vectors of one frame after the optional mid-side conversion
FrameChannels(frame, channels, decoded) ==
    IF channels = 2 /\ frame.flags % 2 = 1 /\ Len(decoded) = 2
    THEN LET lr == decode_mid_side(decoded[1], decoded[2]) IN <<lr.left, lr.right>>
    ELSE [c \in 1..channels |-> IF c <= Len(decoded) THEN decoded[c] ELSE <<>>]

\* interleave, padding short channels with 0, and convert to f32
Interleave(all_samples, channels) ==
    LET max_len == IF channels = 0 THEN 0
                   ELSE Max(0, CHOOSE m \in {Len(all_samples[c]) : c \in 1..channels} :
                            \A c \in 1..channels : Len(all_samples[c]) <= m)
    IN  [k \in 1..(max_len * channels) |->
            LET i == ((k - 1) \div channels) + 1
                ch == ((k - 1) % channels) + 1
            IN  i32_to_f32(IF i <= Len(all_samples[ch]) THEN all_samples[ch][i] ELSE 0)]

RECURSIVE AllSamples(_, _, _, _)
AllSamples(frames, channels, i, acc) ==
    IF i > Len(frames) THEN acc
    ELSE LET frame == frames[i]
             decoded == [c \in 1..Len(frame.channels) |->
                            decode_channel_int(frame.channels[c], frame.frame_samples)]
             fc == FrameChannels(frame, channels, decoded)
         IN  AllSamples(frames, channels, i + 1, [c \in 1..channels |-> acc[c] \o fc[c]])

decode_file(file) ==
    LET channels == file.header.channels
    IN  Interleave(AllSamples(file.frames, channels, 1, [c \in 1..channels |-> <<>>]),
                   channels)

(***************************************************************************)
(* lossy/: the transform codec.  The float MDCT is replaced by an integer  *)
(* lapped transform with the same data flow: a block of two hops gives one *)
(* hop of coefficients, and synthesis adds the first half of the inverse   *)
(* to the overlap kept from the previous block.  The serialized layout is  *)
(* the source's.                                                           *)
(***************************************************************************)
NUM_BARK_BANDS == 25
BS_Long == 0
BS_Short == 1
\* the log-scale u16 that stands for a scale factor of 1.0
UnitScale == 32768

\* BlockSize::coefficients, scaled down
coefficients(block_size) == IF block_size = BS_Short THEN ShortCoefficients ELSE LongCoefficients

RECURSIVE encode_varint(_)
encode_varint(value) ==
    IF value \div 128 # 0 THEN <<128 + (value % 128)>> \o encode_varint(value \div 128)
    ELSE <<value % 128>>

\* number of leading elements of s, from index i, that satisfy zero = (s[j] = 0)
RECURSIVE RunLen(_, _, _, _)
RunLen(s, i, zero, limit) ==
    IF i > Len(s) \/ limit = 0 \/ (s[i] = 0) # zero THEN 0
    ELSE 1 + RunLen(s, i + 1, zero, limit - 1)

RECURSIVE serialize_sparse_from(_, _)
serialize_sparse_from(coeffs, i) ==
    IF i > Len(coeffs) THEN <<>>
    ELSE LET zero_count == RunLen(coeffs, i, TRUE, Len(coeffs))
             non_zero_count == RunLen(coeffs, i + zero_count, FALSE, 255)
         IN  encode_varint(zero_count) \o <<non_zero_count>>
             \o Flatten([j \in 1..non_zero_count |-> I16ToLe(coeffs[i + zero_count + j - 1])])
             \o serialize_sparse_from(coeffs, i + zero_count + non_zero_count)

serialize_sparse(coeffs) == serialize_sparse_from(coeffs, 1)

serialize_frame(frame) ==
    <<frame.block_size, Len(frame.coefficients)>>
    \o Flatten([c \in 1..Len(frame.scale_factors) |->
            Flatten([b \in 1..NUM_BARK_BANDS |-> ToLe(frame.scale_factors[c][b], 2)])])
    \o Flatten([c \in 1..Len(frame.coefficients) |->
            LET encoded == serialize_sparse(frame.coefficients[c])
            IN  ToLe(Len(encoded), 4) \o encoded])

\* decode_varint: value and bytes read, from position pos (0-based) of data
RECURSIVE decode_varint(_, _, _)
decode_varint(data, pos, shift) ==
    IF pos >= Len(data) THEN [value |-> 0, bytes_read |-> 0]
    ELSE LET byte == data[pos + 1]
             low == (byte % 128) * Pow2(shift)
         IN  IF byte < 128 \/ shift + 7 >= 32 THEN [value |-> low, bytes_read |-> 1]
             ELSE LET rest == decode_varint(data, pos + 1, shift + 7)
                  IN  [value |-> low + rest.value, bytes_read |-> 1 + rest.bytes_read]

RECURSIVE deserialize_sparse_from(_, _, _, _)
deserialize_sparse_from(data, pos, out_idx, output) ==
    IF ~(pos < Len(data) /\ out_idx < Len(output)) THEN output
    ELSE LET v == decode_varint(data, pos, 0)
             p1 == pos + v.bytes_read
             idx == out_idx + v.value
         IN  IF p1 >= Len(data) THEN output
             ELSE LET non_zero_count == data[p1 + 1]
                      taken == Min(non_zero_count,
                                   Min(Max(0, (Len(data) - (p1 + 1)) \div 2),
                                       Max(0, Len(output) - idx)))
                  IN  deserialize_sparse_from(data, p1 + 1 + 2 * taken, idx + taken,
                        [k \in 1..Len(output) |->
                            IF k > idx /\ k <= idx + taken
                            THEN I16FromLe(Slice(data, p1 + 1 + 2 * (k - idx - 1), 2))
                            ELSE output[k]])

deserialize_sparse(data, num_coeffs) == deserialize_sparse_from(data, 0, 0, Zeros(num_coeffs))

\* the per-channel coefficient blocks of deserialize_frame, from position pos
RECURSIVE DeserializeCoefficients(_, _, _, _, _)
DeserializeCoefficients(data, pos, n, num_coeffs, acc) ==
    IF n = 0 THEN [ok |-> TRUE, coefficients |-> acc]
    ELSE IF pos + 4 > Len(data) THEN None
    ELSE LET len == U32At(data, pos)
         IN  IF pos + 4 + len > Len(data) THEN None
             ELSE DeserializeCoefficients(data, pos + 4 + len, n - 1, num_coeffs,
                    Append(acc, deserialize_sparse(Slice(data, pos + 4, len), num_coeffs)))

deserialize_frame(data) ==
    IF Len(data) < 2 THEN None
    ELSE IF data[1] > 3 THEN None
    ELSE LET num_channels == data[2]
             sf_end == 2 + 2 * NUM_BARK_BANDS * num_channels
         IN  IF sf_end > Len(data) THEN None
             ELSE LET c == DeserializeCoefficients(data, sf_end, num_channels,
                                                   coefficients(data[1]), <<>>)
                  IN  IF ~c.ok THEN None
                      ELSE [ok |-> TRUE, block_size |-> data[1],
                            coefficients |-> c.coefficients,
                            scale_factors |-> [ch \in 1..num_channels |->
                                [b \in 1..NUM_BARK_BANDS |->
                                    FromLe(Slice(data, 2 + 2 * (NUM_BARK_BANDS * (ch - 1)
                                                               + b - 1), 2))]]]

\* TransformEncoder::encode_frame: the lapped analysis of one block of two
\* hops per channel, quantized with unit scale factors
TransformEncodeFrame(block, channels, hop) ==
    LET coeffs == [c \in 1..channels |->
                      [k \in 1..hop |-> block[c][k] + block[c][hop + k]]]
    IN  [block_size |-> BS_Long, coefficients |-> coeffs,
         scale_factors |-> [c \in 1..channels |->
              [b \in 1..NUM_BARK_BANDS |->
                  IF \E k \in 1..hop : coeffs[c][k] # 0 THEN UnitScale ELSE 0]]]

\* TransformEncoder::encode_to_flo
encode_to_flo(samples, sample_rate, channels, quality, metadata) ==
    LET hop_size == coefficients(BS_Long)
        num_samples_per_channel == Len(samples) \div channels
        num_hops == DivCeil(num_samples_per_channel + hop_size, hop_size)
        total_samples_needed == (num_hops + 1) * hop_size
        padded == [c \in 1..channels |-> [i \in 1..total_samples_needed |->
                      IF i > hop_size /\ i - hop_size <= num_samples_per_channel
                      THEN samples[(i - hop_size - 1) * channels + c] ELSE 0]]
        encoded_frames == [h \in 1..num_hops |->
            LET block == [c \in 1..channels |->
                             SubSeq(padded[c], (h - 1) * hop_size + 1, (h + 1) * hop_size)]
            IN  Frame(FT_Transform, hop_size, 0,
                      <<ChannelData(<<>>, 0, RE_Raw, 0,
                            serialize_frame(TransformEncodeFrame(block, channels, hop_size)))>>)]
    IN  write_ex(sample_rate, channels, 16, 5, TRUE, quality, encoded_frames, metadata)

\* TransformDecoder::new: the overlap buffers of Mdct::new, all zero
TransformDecoderNew(channels) == [c \in 1..channels |-> Zeros(coefficients(BS_Long))]

\* TransformDecoder::decode_frame with Mdct::synthesize: dequantize, inverse
\* transform, overlap-add; gives the interleaved samples and the new overlap
TransformDecodeFrame(overlap, frame) ==
    LET channels == Len(overlap)
        n2 == coefficients(frame.block_size)
        dequantized == [c \in 1..Len(frame.coefficients) |-> [k \in 1..n2 |->
                           IF frame.scale_factors[c][1] > 0
                           THEN frame.coefficients[c][k] ELSE 0]]
        output == [c \in 1..channels |-> [i \in 1..n2 |-> dequantized[c][i] + overlap[c][i]]]
    IN  [samples |-> [k \in 1..(n2 * channels) |->
                        output[((k - 1) % channels) + 1][((k - 1) \div channels) + 1]],
         overlap |-> dequantized]

\* can Mdct::synthesize run on this frame without indexing out of range
Synthesizable(frame, channels) ==
    Len(frame.coefficients) = channels /\ frame.block_size # BS_Short

(***************************************************************************)
(* lib.rs: one-shot decode                                                 *)
(***************************************************************************)
IsTransformFile(file) ==
    \E i \in 1..Len(file.frames) : file.frames[i].frame_type = FT_Transform

\* the loop of decode_transform_file; strict tells whether a frame that does
\* not deserialize is an error (lib.rs) or is skipped (streaming/decoder.rs)
RECURSIVE TransformLoop(_, _, _, _, _, _)
TransformLoop(frames, i, overlap, frame_count, all_samples, strict) ==
    LET Decoded(d) ==
            TransformLoop(frames, i + 1, d.overlap, frame_count + 1,
                          IF frame_count > 0 THEN all_samples \o d.samples ELSE all_samples,
                          strict)
        Frame_(tf) ==
            IF tf.ok THEN Decoded(TransformDecodeFrame(overlap, tf))
            ELSE IF strict THEN Err
            ELSE TransformLoop(frames, i + 1, overlap, frame_count, all_samples, strict)
    IN  IF i > Len(frames) THEN [ok |-> TRUE, samples |-> all_samples]
        ELSE IF frames[i].channels = <<>>
        THEN TransformLoop(frames, i + 1, overlap, frame_count, all_samples, strict)
        ELSE Frame_(deserialize_frame(frames[i].channels[1].residuals))

decode_transform_file(file) ==
    TransformLoop(file.frames, 1, TransformDecoderNew(file.header.channels), 0, <<>>, TRUE)

\* the part of decode that follows Reader::read
DecodeFile(file) ==
    IF ~file.ok THEN Err
    ELSE IF IsTransformFile(file) THEN decode_transform_file(file)
    ELSE [ok |-> TRUE, samples |-> decode_file(file)]

\* lib.rs decode
\* a decode that refuses a file whose stored CRC-32 is not that of its DATA chunk
decode_checks_crc(data) ==
    LET Checked(file) ==
            IF file.ok
               /\ Crc32Le(Slice(data, 4 + file.header.header_size + file.header.toc_size,
                                file.header.data_size)) # file.header.data_crc32
            THEN Err
            ELSE DecodeFile(file)
    IN  Checked(read(data))

decode(data) == DecodeFile(read(data))

(***************************************************************************)
(* streaming/decoder.rs: the private helpers, as functions of the decoder  *)
(* record d (the fields of StreamingDecoder) that give the updated record  *)
(* and the returned value.                                                 *)
(***************************************************************************)
Some(x) == [ok |-> TRUE, val |-> x]

NewDecoder ==
    [buffer |-> <<>>, state |-> "WaitingForHeader", header |-> None, toc |-> <<>>,
     current_frame |-> 0, data_offset |-> 0, lossy_decoder |-> None,
     is_lossy |-> FALSE, skipped_preroll |-> FALSE]

\* result: "true", "false" or "err"
try_parse_header(d) ==
    IF Len(d.buffer) < HeaderEnd THEN [d |-> d, res |-> "false"]
    ELSE IF Slice(d.buffer, 0, 4) # MAGIC
    THEN [d |-> [d EXCEPT !.state = "Error"], res |-> "err"]
    ELSE LET header == read_header(d.buffer)
             lossy == header.flags % 2 = 1
         IN  [d |-> [d EXCEPT !.is_lossy = lossy,
                              !.lossy_decoder =
                                  IF lossy THEN Some(TransformDecoderNew(header.channels))
                                  ELSE d.lossy_decoder,
                              !.header = Some(header)],
              res |-> "true"]

try_parse_toc(d) ==
    LET header == d.header.val
        toc_end == HeaderEnd + header.toc_size
    IN  IF Len(d.buffer) < toc_end THEN [d |-> d, res |-> "false"]
        ELSE IF header.toc_size >= 4
        THEN LET num_entries == U32At(d.buffer, HeaderEnd)
                 entries_start == HeaderEnd + 4
                 fit == Max(0, (Len(d.buffer) - entries_start) \div TocEntrySize)
                 pushed == Min(num_entries, fit)
                 toc == d.toc \o [i \in 1..pushed |->
                            TocEntryAt(d.buffer, entries_start + TocEntrySize * (i - 1))]
             IN  IF pushed < num_entries
                 THEN [d |-> [d EXCEPT !.toc = toc], res |-> "false"]
                 ELSE [d |-> [d EXCEPT !.toc = toc, !.data_offset = toc_end],
                       res |-> "true"]
        ELSE [d |-> [d EXCEPT !.data_offset = toc_end], res |-> "true"]

RECURSIVE CompletePrefix(_, _)
CompletePrefix(d, i) ==
    IF i > Len(d.toc) THEN 0
    ELSE IF d.data_offset + d.toc[i].byte_offset + d.toc[i].frame_size <= Len(d.buffer)
    THEN 1 + CompletePrefix(d, i + 1)
    ELSE 0

\* a count that takes every TOC entry for buffered
count_every_entry(d) == Len(d.toc)

count_complete_frames(d) == CompletePrefix(d, 1)

available_frames(d) ==
    IF d.state # "Ready" THEN 0 ELSE Max(0, count_complete_frames(d) - d.current_frame)

try_advance_state(d) ==
    LET Toc(t) ==
            IF t.res = "true" THEN [d |-> [t.d EXCEPT !.state = "Ready"], res |-> "true"]
            ELSE [d |-> t.d, res |-> "false"]
        Header(h) ==
            IF h.res = "err" THEN h
            ELSE IF h.res = "true"
            THEN Toc(try_parse_toc([h.d EXCEPT !.state = "WaitingForToc"]))
            ELSE [d |-> h.d, res |-> "false"]
    IN  CASE d.state = "WaitingForHeader" -> Header(try_parse_header(d))
          [] d.state = "WaitingForToc" -> Toc(try_parse_toc(d))
          [] d.state = "Ready" ->
                [d |-> d,
                 res |-> IF count_complete_frames(d) > d.current_frame THEN "true"
                         ELSE "false"]
          [] OTHER -> [d |-> d, res |-> "false"]

parse_alpc_channel(data) ==
    IF data = <<>> THEN [ok |-> TRUE, ch |-> new_silence]
    ELSE LET order == data[1]
             pos == 1 + order * 4
         IN  IF order > MaxLpcOrder THEN Err
             ELSE IF Len(data) < pos + 2 THEN Err
             ELSE LET residual_encoding == ResidualEncodingFrom(data[pos + 2])
                      is_rice == residual_encoding = RE_Rice
                  IN  IF is_rice /\ pos + 2 >= Len(data) THEN Err
                      ELSE [ok |-> TRUE,
                            ch |-> ChannelData(
                                [i \in 1..order |-> I32FromLe(Slice(data, 1 + 4 * (i - 1), 4))],
                                data[pos + 1], residual_encoding,
                                IF is_rice THEN data[pos + 3] ELSE 0,
                                SubSeq(data, pos + 3 + (IF is_rice THEN 1 ELSE 0),
                                       Len(data)))]

RECURSIVE ParseChannels(_, _, _, _, _)
ParseChannels(data, pos, frame_type, n, acc) ==
    LET Rest(ch_size, channel) ==
            IF ~channel.ok THEN Err
            ELSE ParseChannels(data, pos + 4 + ch_size, frame_type, n - 1,
                               Append(acc, channel.ch))
        Channel(ch_size, ch_data) ==
            Rest(ch_size,
                 CASE frame_type = FT_Silence -> [ok |-> TRUE, ch |-> new_silence]
                   [] frame_type \in {FT_Raw, FT_Transform} ->
                         [ok |-> TRUE, ch |-> ChannelData(<<>>, 0, RE_Raw, 0, ch_data)]
                   [] OTHER -> parse_alpc_channel(ch_data))
        Sized(ch_size) ==
            IF pos + 4 + ch_size > Len(data) THEN Err
            ELSE Channel(ch_size, Slice(data, pos + 4, ch_size))
    IN  IF n = 0 THEN [ok |-> TRUE, channels |-> acc]
        ELSE IF pos + 4 > Len(data) THEN Err
        ELSE Sized(U32At(data, pos))

parse_frame(data, channels) ==
    LET Build(r) ==
            IF ~r.ok THEN Err
            ELSE [ok |-> TRUE,
                  frame |-> Frame(data[1], U32At(data, 1), data[6], r.channels)]
        Channels(frame_type) ==
            Build(ParseChannels(data, 6, frame_type,
                                IF frame_type = FT_Transform THEN 1 ELSE channels, <<>>))
    IN  IF Len(data) < 6 THEN Err ELSE Channels(FrameTypeFrom(data[1]))

\* StreamingDecoder::reconstruct_lpc_int
RECURSIVE StreamLpcSamples(_, _, _, _, _)
StreamLpcSamples(coeffs, residuals, shift, upto, acc) ==
    LET i == Len(acc)
    IN  IF i >= upto THEN acc
        ELSE StreamLpcSamples(coeffs, residuals, shift, upto,
                Append(acc, FloorShift(SumSeq([j \in 1..Len(coeffs) |->
                                IF i > j - 1 THEN coeffs[j] * acc[i - j + 1] ELSE 0]), shift)
                            + residuals[i + 1]))

stream_reconstruct_lpc_int(coeffs, residuals, shift, order, target_len) ==
    LET warmup == SubSeq(residuals, 1, Min(order, Len(residuals)))
        samples == StreamLpcSamples(coeffs, residuals, shift,
                                    Min(target_len, Len(residuals)), warmup)
    IN  samples \o Zeros(target_len - Len(samples))

\* StreamingDecoder::decode_channel_int
stream_decode_channel_int(ch_data, frame_samples) ==
    LET has_coeffs == ch_data.predictor_coeffs # <<>>
        has_residuals == ch_data.residuals # <<>>
    IN  IF ~has_coeffs /\ has_residuals /\ ch_data.shift_bits >= 128
        THEN reconstruct_fixed(ch_data.shift_bits - 128,
                decode_i32(ch_data.residuals, ch_data.rice_parameter, frame_samples),
                frame_samples)
        ELSE IF has_coeffs
        THEN stream_reconstruct_lpc_int(ch_data.predictor_coeffs,
                IF ch_data.residual_encoding = RE_Rice
                THEN decode_i32(ch_data.residuals, ch_data.rice_parameter, frame_samples)
                ELSE RawPcm(ch_data.residuals, frame_samples),
                ch_data.shift_bits, Len(ch_data.predictor_coeffs), frame_samples)
        ELSE IF has_residuals THEN RawPcm(ch_data.residuals, frame_samples)
        ELSE Zeros(frame_samples)

\* a decode_frame that returns the first Transform frame's samples too
decode_frame_keeps_preroll(d, frame, header) ==
    LET Synthesized(r) ==
            [d |-> [d EXCEPT !.lossy_decoder = Some(r.overlap), !.skipped_preroll = TRUE],
             samples |-> r.samples]
        Transform(tf) ==
            IF ~tf.ok THEN [d |-> d, samples |-> <<>>]
            ELSE Synthesized(TransformDecodeFrame(
                    IF d.lossy_decoder.ok THEN d.lossy_decoder.val
                    ELSE TransformDecoderNew(header.channels), tf))
    IN  IF FrameTypeFrom(frame.frame_type) = FT_Transform
        THEN IF frame.channels = <<>> THEN [d |-> d, samples |-> <<>>]
             ELSE Transform(deserialize_frame(frame.channels[1].residuals))
        ELSE [d |-> d,
              samples |-> Interleave(
                  FrameChannels(frame, header.channels,
                      [c \in 1..Len(frame.channels) |->
                          stream_decode_channel_int(frame.channels[c],
                                                    frame.frame_samples)]),
                  header.channels)]

\* a decode_frame that never records that the pre-roll frame was dropped
decode_frame_drops_every_frame(d, frame, header) ==
    LET Synthesized(r) ==
            [d |-> [d EXCEPT !.lossy_decoder = Some(r.overlap)],
             samples |-> IF ~d.skipped_preroll THEN <<>> ELSE r.samples]
        Transform(tf) ==
            IF ~tf.ok THEN [d |-> d, samples |-> <<>>]
            ELSE Synthesized(TransformDecodeFrame(
                    IF d.lossy_decoder.ok THEN d.lossy_decoder.val
                    ELSE TransformDecoderNew(header.channels), tf))
    IN  IF FrameTypeFrom(frame.frame_type) = FT_Transform
        THEN IF frame.channels = <<>> THEN [d |-> d, samples |-> <<>>]
             ELSE Transform(deserialize_frame(frame.channels[1].residuals))
        ELSE [d |-> d,
              samples |-> Interleave(
                  FrameChannels(frame, header.channels,
                      [c \in 1..Len(frame.channels) |->
                          stream_decode_channel_int(frame.channels[c],
                                                    frame.frame_samples)]),
                  header.channels)]

\* StreamingDecoder::decode_frame: the samples and the updated decoder record
decode_frame(d, frame, header) ==
    LET Synthesized(r) ==
            [d |-> [d EXCEPT !.lossy_decoder = Some(r.overlap), !.skipped_preroll = TRUE],
             samples |-> IF ~d.skipped_preroll THEN <<>> ELSE r.samples]
        Transform(tf) ==
            IF ~tf.ok THEN [d |-> d, samples |-> <<>>]
            ELSE Synthesized(TransformDecodeFrame(
                    IF d.lossy_decoder.ok THEN d.lossy_decoder.val
                    ELSE TransformDecoderNew(header.channels), tf))
    IN  IF FrameTypeFrom(frame.frame_type) = FT_Transform
        THEN IF frame.channels = <<>> THEN [d |-> d, samples |-> <<>>]
             ELSE Transform(deserialize_frame(frame.channels[1].residuals))
        ELSE [d |-> d,
              samples |-> Interleave(
                  FrameChannels(frame, header.channels,
                      [c \in 1..Len(frame.channels) |->
                          stream_decode_channel_int(frame.channels[c],
                                                    frame.frame_samples)]),
                  header.channels)]

\* the part of decode_with_standard_decoder that follows Reader::read
StandardDecode(file) ==
    IF ~file.ok THEN Err
    ELSE IF IsTransformFile(file)
    THEN TransformLoop(file.frames, 1, TransformDecoderNew(file.header.channels), 0,
                       <<>>, FALSE)
    ELSE [ok |-> TRUE, samples |-> decode_file(file)]

\* StreamingDecoder::decode_with_standard_decoder
decode_with_standard_decoder(d) == StandardDecode(read(d.buffer))

(***************************************************************************)
(* streaming/decoder.rs: the public operations.  Each gives the updated    *)
(* decoder record and the returned value: kind is "true"/"false" for       *)
(* Ok(bool), "none" for Ok(None), "frame" for Ok(Some(samples)),           *)
(* "samples" for Ok(samples) and "err" for Err.                            *)
(***************************************************************************)
Result(d, kind, samples) == [d |-> d, kind |-> kind, samples |-> samples]

\* a feed that keeps only the newest chunk in the buffer
feed_forgets_buffer(d, data) ==
    IF d.state = "Error" \/ d.state = "Finished" THEN Result(d, "false", <<>>)
    ELSE LET r == try_advance_state([d EXCEPT !.buffer = data])
         IN  Result(r.d, r.res, <<>>)

feed(d, data) ==
    IF d.state = "Error" \/ d.state = "Finished" THEN Result(d, "false", <<>>)
    ELSE LET r == try_advance_state([d EXCEPT !.buffer = d.buffer \o data])
         IN  Result(r.d, r.res, <<>>)

\* a next_frame that steps over a frame that is not fully buffered
next_frame_skips_incomplete(d) ==
    LET Decoded(r) == Result(r.d, "frame", r.samples)
        Parsed(p) ==
            IF ~p.ok THEN Result(d, "err", <<>>)
            ELSE Decoded(decode_frame([d EXCEPT !.current_frame = d.current_frame + 1],
                                      p.frame, d.header.val))
        Entry(toc_entry, frame_start) ==
            IF frame_start + toc_entry.frame_size > Len(d.buffer)
            THEN Result([d EXCEPT !.current_frame = d.current_frame + 1], "none", <<>>)
            ELSE Parsed(parse_frame(Slice(d.buffer, frame_start, toc_entry.frame_size),
                                    d.header.val.channels))
    IN  IF d.state # "Ready" THEN Result(d, "none", <<>>)
        ELSE IF ~d.header.ok THEN Result(d, "err", <<>>)
        ELSE IF d.current_frame >= Len(d.toc)
        THEN Result([d EXCEPT !.state = "Finished"], "none", <<>>)
        ELSE Entry(d.toc[d.current_frame + 1],
                   d.data_offset + d.toc[d.current_frame + 1].byte_offset)

next_frame(d) ==
    LET Decoded(r) == Result(r.d, "frame", r.samples)
        Parsed(p) ==
            IF ~p.ok THEN Result(d, "err", <<>>)
            ELSE Decoded(decode_frame([d EXCEPT !.current_frame = d.current_frame + 1],
                                      p.frame, d.header.val))
        Entry(toc_entry, frame_start) ==
            IF frame_start + toc_entry.frame_size > Len(d.buffer)
            THEN Result(d, "none", <<>>)
            ELSE Parsed(parse_frame(Slice(d.buffer, frame_start, toc_entry.frame_size),
                                    d.header.val.channels))
    IN  IF d.state # "Ready" THEN Result(d, "none", <<>>)
        ELSE IF ~d.header.ok THEN Result(d, "err", <<>>)
        ELSE IF d.current_frame >= Len(d.toc)
        THEN Result([d EXCEPT !.state = "Finished"], "none", <<>>)
        ELSE Entry(d.toc[d.current_frame + 1],
                   d.data_offset + d.toc[d.current_frame + 1].byte_offset)

decode_available(d) ==
    LET Decoded(r) ==
            IF ~r.ok THEN Result(d, "err", <<>>)
            ELSE Result([d EXCEPT !.state = "Finished"], "samples", r.samples)
    IN  IF d.state # "Ready" THEN Result(d, "samples", <<>>)
        ELSE Decoded(decode_with_standard_decoder(d))

\* a reset that leaves the pre-roll flag as it was
reset_keeps_preroll(d) ==
    [d EXCEPT !.buffer = <<>>, !.state = "WaitingForHeader", !.header = None, !.toc = <<>>,
              !.current_frame = 0, !.data_offset = 0, !.lossy_decoder = None,
              !.is_lossy = FALSE]

reset(d) ==
    [d EXCEPT !.buffer = <<>>, !.state = "WaitingForHeader", !.header = None, !.toc = <<>>,
              !.current_frame = 0, !.data_offset = 0, !.lossy_decoder = None,
              !.is_lossy = FALSE, !.skipped_preroll = FALSE]

(***************************************************************************)
(* The streamed files: outputs of the two encoders, and files damaged in   *)
(* one field each.                                                         *)
(***************************************************************************)
Input(samples, sample_rate, channels, level, metadata) ==
    [samples |-> samples, sample_rate |-> sample_rate, channels |-> channels,
     level |-> level, metadata |-> metadata]

LosslessInputs ==
    { Input(<<>>, 1, 1, 5, <<>>),
      Input(<<10>>, 1, 1, 5, <<7>>),
      Input(<<10, 400>>, 1, 1, 5, <<>>),
      Input(<<0, 0, 400>>, 2, 1, 5, <<7>>),
      Input(<<200, 200, 200>>, 3, 1, 5, <<>>),
      Input(<<200, 200, 200, 200>>, 2, 2, 5, <<>>),
      Input(<<10, 400, 400, 10>>, 1, 2, 0, <<7>>),
      Input(<<1, 1, 1>>, 2, 1, 9, <<>>) }

LossyInputs ==
    { Input(<<>>, 1, 1, 2, <<>>),
      Input(<<4>>, 1, 1, 2, <<7>>),
      Input(<<4, 6, 8>>, 1, 1, 4, <<>>) }

EncodeInput(in) ==
    Encode(in.samples, in.sample_rate, in.channels, 16, in.level, None, in.metadata)

\* bytes with the n bytes at position pos (from 0) replaced by the little-endian v
Patch(bytes, pos, v, n) ==
    [i \in 1..Len(bytes) |-> IF i > pos /\ i <= pos + n THEN ToLe(v, n)[i - pos] ELSE bytes[i]]

TocSizeField == 38
FirstFrameSizeField == 86

OneFrame == EncodeInput(Input(<<10>>, 1, 1, 5, <<7>>))
TwoFrames == EncodeInput(Input(<<10, 400>>, 1, 1, 5, <<>>))
FixedFrame == EncodeInput(Input(<<200, 200, 200>>, 3, 1, 5, <<>>))

BadMagic == Patch(TwoFrames, 0, 71, 1)
ShortFrame == Patch(TwoFrames, FirstFrameSizeField, 3, 4)
TruncatedBlob == Patch(OneFrame, HeaderEnd + 4 + TocEntrySize + 6, 200, 4)
LpcOrder13 == Patch(FixedFrame, HeaderEnd + 4 + TocEntrySize + 10, 13, 1)
ShortToc == Patch(OneFrame, TocSizeField, 4, 8)
\* two TOC entries declared, and a toc_size that covers the count alone
ShortTocTwo == Patch(TwoFrames, TocSizeField, 4, 8)

Files ==
    { [kind |-> "lossless", bytes |-> EncodeInput(in)] : in \in LosslessInputs }
    \cup { [kind |-> "lossy",
            bytes |-> encode_to_flo(in.samples, in.sample_rate, in.channels, in.level,
                                    in.metadata)] : in \in LossyInputs }
    \cup { [kind |-> "damaged", bytes |-> b] :
                b \in {BadMagic, ShortFrame, TruncatedBlob, LpcOrder13, ShortToc,
                      ShortTocTwo} }

\* sizes of the chunks a caller feeds, besides all that remains of the file
ChunkSizes == {1, 50}

(***************************************************************************)
(* State: the fields of StreamingDecoder, the file being streamed with the *)
(* number of its bytes handed to feed so far, and what a caller observes:  *)
(* the last call with its result, the concatenated next_frame outputs, the *)
(* frames decoded since the last reset, the number of feed calls (2 for    *)
(* two or more), the operations called since the last reset and whether    *)
(* reset was ever called.  codec is the state of the one-shot pipeline.    *)
(***************************************************************************)
VARIABLES buffer, state, header, toc, current_frame, data_offset, lossy_decoder,
          is_lossy, skipped_preroll, src, expect, fed, last, out, log, feeds, calls,
          was_reset, codec

decoder_vars == <<buffer, state, header, toc, current_frame, data_offset, lossy_decoder,
                  is_lossy, skipped_preroll>>
vars == <<buffer, state, header, toc, current_frame, data_offset, lossy_decoder,
          is_lossy, skipped_preroll, src, expect, fed, last, out, log, feeds, calls,
          was_reset, codec>>

Self ==
    [buffer |-> buffer, state |-> state, header |-> header, toc |-> toc,
     current_frame |-> current_frame, data_offset |-> data_offset,
     lossy_decoder |-> lossy_decoder, is_lossy |-> is_lossy,
     skipped_preroll |-> skipped_preroll]

SetSelf(d) ==
    /\ buffer' = d.buffer
    /\ state' = d.state
    /\ header' = d.header
    /\ toc' = d.toc
    /\ current_frame' = d.current_frame
    /\ data_offset' = d.data_offset
    /\ lossy_decoder' = d.lossy_decoder
    /\ is_lossy' = d.is_lossy
    /\ skipped_preroll' = d.skipped_preroll

Call(op, r) == [op |-> op, kind |-> r.kind, samples |-> r.samples]
NoCall == [op |-> "new", kind |-> "none", samples |-> <<>>]
Idle == [phase |-> "idle"]

Init ==
    /\ buffer = NewDecoder.buffer
    /\ state = NewDecoder.state
    /\ header = NewDecoder.header
    /\ toc = NewDecoder.toc
    /\ current_frame = NewDecoder.current_frame
    /\ data_offset = NewDecoder.data_offset
    /\ lossy_decoder = NewDecoder.lossy_decoder
    /\ is_lossy = NewDecoder.is_lossy
    /\ skipped_preroll = NewDecoder.skipped_preroll
    /\ src \in Files
    /\ expect = decode(src.bytes)
    /\ fed = 0
    /\ last = NoCall
    /\ out = <<>>
    /\ log = <<>>
    /\ feeds = 0
    /\ calls = {}
    /\ was_reset = FALSE
    /\ codec = Idle

(***************************************************************************)
(* One action per public operation of StreamingDecoder.                    *)
(***************************************************************************)
\* feed(chunk): the next n bytes of the file, or what remains of it
Feed ==
    \E n \in ChunkSizes \cup {Len(src.bytes) - fed} :
        \E r \in {feed(Self, Slice(src.bytes, fed, Min(n, Len(src.bytes) - fed)))} :
            /\ fed < Len(src.bytes)
            /\ SetSelf(r.d)
            /\ fed' = fed + Min(n, Len(src.bytes) - fed)
            /\ last' = Call("feed", r)
            /\ feeds' = Min(feeds + 1, 2)
            /\ calls' = calls \cup {"feed"}
            /\ UNCHANGED <<src, expect, out, log, was_reset, codec>>

NextFrame ==
    \E r \in {next_frame(Self)} :
        /\ SetSelf(r.d)
        /\ last' = Call("next_frame", r)
        /\ out' = out \o r.samples
        /\ log' = IF r.kind = "frame"
                  THEN Append(log, [by |-> "next_frame", index |-> current_frame])
                  ELSE log
        /\ calls' = calls \cup {"next_frame"}
        /\ UNCHANGED <<src, expect, fed, feeds, was_reset, codec>>

\* decode_available parses and decodes every frame the Reader finds in the buffer
DecodeAvailable ==
    \E r \in {decode_available(Self)} :
        /\ SetSelf(r.d)
        /\ last' = Call("decode_available", r)
        /\ log' = IF state = "Ready" /\ r.kind = "samples"
                  THEN log \o [i \in 1..Len(read(buffer).frames) |->
                                  [by |-> "decode_available", index |-> i - 1]]
                  ELSE log
        /\ calls' = calls \cup {"decode_available"}
        /\ UNCHANGED <<src, expect, fed, out, feeds, was_reset, codec>>

\* reset(), after which the caller streams the file again from its start
Reset ==
    /\ last.op # "new"
    /\ SetSelf(reset(Self))
    /\ fed' = 0
    /\ last' = [op |-> "reset", kind |-> "none", samples |-> <<>>]
    /\ out' = <<>>
    /\ log' = <<>>
    /\ feeds' = 0
    /\ calls' = {}
    /\ was_reset' = TRUE
    /\ UNCHANGED <<src, expect, codec>>

Next == Feed \/ NextFrame \/ DecodeAvailable \/ Reset

Spec == Init /\ [][Next]_vars

(***************************************************************************)
(* Properties of the streaming decoder.                                    *)
(***************************************************************************)
\* the streamed file is the output of one of the two encoders
Produced == src.kind \in {"lossless", "lossy"}

\* the header of the streamed file says where the DATA chunk starts
data_start == HeaderEnd + U64At(src.bytes, TocSizeField)

ValidMagic == Len(buffer) >= 4 /\ Slice(buffer, 0, 4) = MAGIC

\* the order of DecoderState along a stream
Rank(s) ==
    CASE s = "WaitingForHeader" -> 0
      [] s = "WaitingForToc" -> 1
      [] s = "Ready" -> 2
      [] OTHER -> 3

\* frames next_frame has returned since construction or the last reset
NextFrames == Len(SelectSeq(log, LAMBDA e : e.by = "next_frame"))

\* the current TOC entry exists and its frame lies within the buffered bytes
CursorFrameBuffered ==
    /\ current_frame < Len(toc)
    /\ data_offset + toc[current_frame + 1].byte_offset
           + toc[current_frame + 1].frame_size <= Len(buffer)

\* the TOC entries whose frame lies within the buffered bytes
CompleteFrames ==
    Cardinality({i \in 1..Len(toc) :
        data_offset + toc[i].byte_offset + toc[i].frame_size <= Len(buffer)})

StateMovesForward ==
    [][/\ Len(buffer') < HeaderEnd => state' = "WaitingForHeader"
       /\ (Len(buffer') >= HeaderEnd /\ ValidMagic') => Rank(state') >= 1
       /\ (Len(buffer') >= data_start /\ ValidMagic') => Rank(state') >= 2
       /\ last'.op # "reset" => Rank(state') >= Rank(state)]_vars

ReadyAfterFinalChunk ==
    [][(Produced /\ "decode_available" \notin calls /\ last'.op = "feed"
            /\ fed' = Len(src.bytes))
        => state' = "Ready"]_vars

\* C5 as the code has it: after the last chunk the state is Ready unless
\* next_frame had already run past the last frame; either way the frames
\* next_frame returns are together a prefix of the one-shot decode, and all of
\* it once next_frame returns None with the whole file fed
ChunkedFeed ==
    [][(Produced /\ "decode_available" \notin calls')
        => /\ (last'.op = "feed" /\ fed' = Len(src.bytes))
                  => \/ state' = "Ready"
                     \/ state = "Finished" /\ state' = "Finished"
                            /\ current_frame = Len(toc)
           /\ Len(out') <= Len(expect.samples)
           /\ out' = SubSeq(expect.samples, 1, Len(out'))
           /\ (last'.op = "next_frame" /\ last'.kind = "none" /\ fed = Len(src.bytes))
                  => out' = expect.samples
           /\ state' = "Finished" => out' = expect.samples]_vars

\* C5: a file fed in several chunks whose last chunk came after next_frame had
\* returned every frame
FinalChunkAfterLastFrame ==
    /\ Produced
    /\ feeds = 2 /\ fed = Len(src.bytes)
    /\ last.op = "feed"
    /\ state = "Finished"
    /\ "decode_available" \notin calls
    /\ out = expect.samples /\ out # <<>>

\* C6: in state Error every feed and every next_frame returns Err
ErrorIsSticky ==
    [][(state = "Error" /\ last'.op \in {"feed", "next_frame"})
        => last'.kind = "err"]_vars

\* C7: a feed or next_frame that fails to parse leaves the decoder in state Error
ParseFailureEntersError ==
    [][(last'.op \in {"feed", "next_frame"} /\ last'.kind = "err")
        => state' = "Error"]_vars

\* C8: no frame is decoded twice between resets, by next_frame or by
\* decode_available
NoFrameDecodedTwice ==
    \A i, j \in 1..Len(log) : i # j => log[i].index # log[j].index

\* C9: of the Transform frames next_frame decodes from a lossy file, the first
\* since construction or reset yields no samples and every later one yields
\* samples, which continue the one-shot decode of the file
PrerollDroppedOnce ==
    [][(src.kind = "lossy" /\ last'.op = "next_frame" /\ last'.kind = "frame")
        => /\ NextFrames = 0 => last'.samples = <<>>
           /\ NextFrames > 0 => last'.samples # <<>>
           /\ Len(out') <= Len(expect.samples)
           /\ out' = SubSeq(expect.samples, 1, Len(out'))]_vars

\* C9: the third Transform frame of a stream has yielded samples
LaterFrameYieldsSamples ==
    /\ src.kind = "lossy"
    /\ last.op = "next_frame" /\ last.kind = "frame"
    /\ NextFrames = 3
    /\ last.samples # <<>>
    /\ skipped_preroll

FeedReportsFrames ==
    [][last'.op = "feed"
        => (last'.kind = "true" <=> available_frames(Self)' > 0)]_vars

\* C12: reset leaves every field as StreamingDecoder::new does, and a
\* decoder that was reset decodes the file fed again to the one-shot decode,
\* by next_frame and by decode_available
ResetIsFresh ==
    [][/\ last'.op = "reset" => Self' = NewDecoder
       /\ (was_reset' /\ Produced /\ "decode_available" \notin calls'
               /\ state' = "Finished")
              => out' = expect.samples
       /\ (was_reset /\ Produced /\ last'.op = "decode_available" /\ state = "Ready"
               /\ "next_frame" \notin calls /\ Len(buffer) = Len(src.bytes))
              => last'.samples = expect.samples]_vars

\* C12: a lossy file decoded to the end by next_frame on a decoder that was reset
ResetThenDecoded ==
    /\ was_reset
    /\ src.kind = "lossy"
    /\ state = "Finished"
    /\ "decode_available" \notin calls
    /\ skipped_preroll
    /\ out = expect.samples /\ out # <<>>

\* the header's toc_size differs from 4 + 20 * the entry count that starts the TOC
TocInconsistent(bytes) ==
    /\ Len(bytes) >= HeaderEnd + 4
    /\ U64At(bytes, TocSizeField) # 4 + TocEntrySize * U32At(bytes, HeaderEnd)

\* C19: a file whose toc_size is inconsistent with its entry count is rejected:
\* the streaming decoder never becomes Ready on it and Reader.read fails on it
InconsistentTocRejected ==
    TocInconsistent(buffer) =>
        /\ state \notin {"Ready", "Finished"}
        /\ Len(buffer) = Len(src.bytes) => ~read(buffer).ok

(***************************************************************************)
(* The one-shot pipeline: Encoder::encode, then decode, on every input     *)
(* within the bounds.                                                      *)
(***************************************************************************)
\* f32 samples: silence, a value below one 16-bit step, small and large levels
SampleValues == {0, 1, 5 * Sub, -200 * Sub, I16_MAX * Sub}
SampleRates == {1, 2}
\* one level for each way the encoder treats a level: no prediction, fixed
\* predictors only, and the two ends of the LPC range
Levels == {0, 2, 3, 9}

RECURSIVE SeqsUpTo(_, _)
SeqsUpTo(S, n) ==
    IF n = 0 THEN {<<>>}
    ELSE LET shorter == SeqsUpTo(S, n - 1)
         IN  shorter \cup {Append(q, x) : q \in {t \in shorter : Len(t) = n - 1}, x \in S}

CodecInputs ==
    { [phase |-> "input", samples |-> q, sample_rate |-> r, channels |-> c, level |-> l,
       bytes |-> <<>>, output |-> Err] :
        q \in SeqsUpTo(SampleValues, MaxSamples), r \in SampleRates, c \in {1, 2},
        l \in Levels }

CodecInit ==
    /\ buffer = NewDecoder.buffer
    /\ state = NewDecoder.state
    /\ header = NewDecoder.header
    /\ toc = NewDecoder.toc
    /\ current_frame = NewDecoder.current_frame
    /\ data_offset = NewDecoder.data_offset
    /\ lossy_decoder = NewDecoder.lossy_decoder
    /\ is_lossy = NewDecoder.is_lossy
    /\ skipped_preroll = NewDecoder.skipped_preroll
    /\ src = [kind |-> "none", bytes |-> <<>>]
    /\ expect = Err
    /\ fed = 0
    /\ last = NoCall
    /\ out = <<>>
    /\ log = <<>>
    /\ feeds = 0
    /\ calls = {}
    /\ was_reset = FALSE
    /\ codec \in {in \in CodecInputs : Len(in.samples) % in.channels = 0}

CodecEncode ==
    /\ codec.phase = "input"
    /\ codec' = [codec EXCEPT !.phase = "encoded",
                              !.bytes = Encode(codec.samples, codec.sample_rate,
                                               codec.channels, 16, codec.level, None, <<>>)]
    /\ UNCHANGED <<decoder_vars, src, expect, fed, last, out, log, feeds, calls, was_reset>>

CodecDecode ==
    /\ codec.phase = "encoded"
    /\ codec' = [codec EXCEPT !.phase = "decoded", !.output = decode(codec.bytes)]
    /\ UNCHANGED <<decoder_vars, src, expect, fed, last, out, log, feeds, calls, was_reset>>

CodecNext == CodecEncode \/ CodecDecode

CodecSpec == CodecInit /\ [][CodecNext]_vars

\* the 16-bit quantization of an input, as f32 samples
Quantized(samples) == [i \in 1..Len(samples) |-> i32_to_f32(f32_to_i32(samples[i]))]

\* C1: decoding the lossless encoder's output gives as many samples as the
\* input has, each the 16-bit quantization of the input sample
LosslessRoundTrip ==
    codec.phase = "decoded" =>
        /\ codec.output.ok
        /\ codec.output.samples = Quantized(codec.samples)

\* the frames the encoder hands to the Writer for the pipeline's input
EncodedFrames ==
    encode_frames(codec.samples, codec.sample_rate, codec.channels, codec.level, None)

FrameTypeFollowsChannels ==
    codec.phase \in {"encoded", "decoded"} =>
        \A i \in 1..Len(EncodedFrames) :
            LET frame == EncodedFrames[i]
                all_raw == \A c \in 1..Len(frame.channels) :
                                frame.channels[c].residual_encoding = RE_Raw
            IN  frame.frame_type # FT_Silence =>
                    /\ frame.frame_type = FT_Raw <=> all_raw
                    /\ ~all_raw =>
                        frame.frame_type = from_order(lpc_order_from_level(codec.level))

(***************************************************************************)
(* lib.rs, the functions that work on the bytes of a whole file.  A Rust   *)
(* slice or index outside its vector panics: that outcome is kept apart    *)
(* from Ok and Err.                                                        *)
(***************************************************************************)
Ok(bytes) == [kind |-> "ok", bytes |-> bytes]
Failed == [kind |-> "err"]
Panic == [kind |-> "panic"]

MetaSizeField == 62

\* the offset update_metadata_bytes computes from the header fields
MetaOffset(h) == 4 + h.header_size + h.toc_size + h.data_size + h.extra_size

\* update_metadata_bytes that appends the metadata and leaves meta_size as it was
update_metadata_keeps_size(flo_data, new_metadata) ==
    LET Copy(file) ==
            IF ~file.ok THEN Failed
            ELSE IF MetaOffset(file.header) > Len(flo_data) THEN Panic
            ELSE Ok(Slice(flo_data, 0, MetaOffset(file.header)) \o new_metadata)
    IN  IF Len(flo_data) < HEADER_SIZE THEN Failed
        ELSE IF Slice(flo_data, 0, 4) # MAGIC THEN Failed
        ELSE Copy(read(flo_data))

update_metadata_bytes(flo_data, new_metadata) ==
    LET Fix(result) ==
            IF MetaSizeField + 8 > Len(result) THEN Panic
            ELSE Ok(Patch(result, MetaSizeField, Len(new_metadata), 8))
        Copy(file) ==
            IF ~file.ok THEN Failed
            ELSE IF MetaOffset(file.header) > Len(flo_data) THEN Panic
            ELSE Fix(Slice(flo_data, 0, MetaOffset(file.header)) \o new_metadata)
    IN  IF Len(flo_data) < HEADER_SIZE THEN Failed
        ELSE IF Slice(flo_data, 0, 4) # MAGIC THEN Failed
        ELSE Copy(read(flo_data))

strip_metadata_bytes(flo_data) == update_metadata_bytes(flo_data, <<>>)

\* validate that takes the DATA chunk to start where the header ends
validate_skips_toc(data) ==
    LET Check(file, start) ==
            /\ file.ok
            /\ start + file.header.data_size <= Len(data)
            /\ Crc32Le(Slice(data, start, file.header.data_size)) = file.header.data_crc32
        Start(file) == Check(file, IF file.ok THEN 4 + file.header.header_size ELSE 0)
    IN  Start(read(data))

validate(data) ==
    LET Check(file, start) ==
            /\ file.ok
            /\ start + file.header.data_size <= Len(data)
            /\ Crc32Le(Slice(data, start, file.header.data_size)) = file.header.data_crc32
        Start(file) ==
            Check(file, IF file.ok THEN 4 + file.header.header_size + file.header.toc_size
                        ELSE 0)
    IN  Start(read(data))

\* has_metadata without the second length test: true for 66 to 69 bytes
has_metadata_short_header(flo_data) ==
    IF Len(flo_data) < HEADER_SIZE THEN FALSE
    ELSE IF Len(flo_data) < MetaSizeField + 8 THEN TRUE
    ELSE U64At(flo_data, MetaSizeField) > 0

has_metadata(flo_data) ==
    IF Len(flo_data) < HEADER_SIZE THEN FALSE
    ELSE IF Len(flo_data) < MetaSizeField + 8 THEN FALSE
    ELSE U64At(flo_data, MetaSizeField) > 0

(***************************************************************************)
(* The file-level operations as a state machine on one file: the bytes a   *)
(* caller holds, what they were before the last call, the last call with   *)
(* its argument and result, the number of metadata edits so far, and       *)
(* whether the caller cut the file short or appended bytes to it.  A file   *)
(* cut short is read, validated and asked for metadata, and no more.       *)
(***************************************************************************)
MaxEdits == 2
Metadatas == {<<>>, <<7>>, <<1, 2>>}
Trailing == {<<0>>, <<255, 70>>}

ExtraSizeField == 54
HeaderSizeField == 30
ChannelsField == 12
CrcField == 26

\* files no encoder writes: one header field changed in an encoder's output
ExtraBeyondEnd == Patch(TwoFrames, ExtraSizeField, 1000, 8)
HeaderSizeZero == Patch(TwoFrames, HeaderSizeField, 0, 8)
ZeroChannels == Patch(TwoFrames, ChannelsField, 0, 1)

ContainerFiles ==
    Files \cup { [kind |-> "damaged", bytes |-> b] :
                    b \in {ExtraBeyondEnd, HeaderSizeZero, ZeroChannels} }

Holding(f) ==
    [phase |-> "file", kind |-> f.kind, file |-> f.bytes, prev |-> f.bytes, op |-> "none",
     arg |-> <<>>, res |-> Failed, edits |-> 0, cut |-> "whole"]

ContainerInit ==
    /\ buffer = NewDecoder.buffer
    /\ state = NewDecoder.state
    /\ header = NewDecoder.header
    /\ toc = NewDecoder.toc
    /\ current_frame = NewDecoder.current_frame
    /\ data_offset = NewDecoder.data_offset
    /\ lossy_decoder = NewDecoder.lossy_decoder
    /\ is_lossy = NewDecoder.is_lossy
    /\ skipped_preroll = NewDecoder.skipped_preroll
    /\ src = [kind |-> "none", bytes |-> <<>>]
    /\ expect = Err
    /\ fed = 0
    /\ last = NoCall
    /\ out = <<>>
    /\ log = <<>>
    /\ feeds = 0
    /\ calls = {}
    /\ was_reset = FALSE
    /\ codec \in {Holding(f) : f \in ContainerFiles}

\* the caller keeps the returned file when the call returns one; the returned
\* file ends with its metadata
Edited(op, m, r) ==
    [codec EXCEPT !.op = op, !.arg = m, !.res = r, !.prev = codec.file,
                  !.file = IF r.kind = "ok" THEN r.bytes ELSE codec.file,
                  !.edits = codec.edits + 1,
                  !.cut = IF r.kind = "ok" /\ codec.cut = "padded" THEN "whole"
                          ELSE codec.cut]

Observed(op, r) == [codec EXCEPT !.op = op, !.arg = <<>>, !.res = r, !.prev = codec.file]

\* the last call changed the file the caller holds, or there was no call yet:
\* every call is made on a file as the changes before it left it
Unobserved == codec.op \in {"none", "update", "strip", "truncate", "append", "corrupt"}

UpdateMetadata ==
    /\ Unobserved
    /\ codec.edits < MaxEdits
    /\ codec.cut # "cut"
    /\ \E m \in Metadatas :
        \E r \in {update_metadata_bytes(codec.file, m)} : codec' = Edited("update", m, r)
    /\ UNCHANGED <<decoder_vars, src, expect, fed, last, out, log, feeds, calls, was_reset>>

StripMetadata ==
    /\ Unobserved
    /\ codec.edits < MaxEdits
    /\ codec.cut # "cut"
    /\ \E r \in {strip_metadata_bytes(codec.file)} : codec' = Edited("strip", <<>>, r)
    /\ UNCHANGED <<decoder_vars, src, expect, fed, last, out, log, feeds, calls, was_reset>>

Validate ==
    /\ Unobserved
    /\ codec' = Observed("validate", [kind |-> "ok", val |-> validate(codec.file)])
    /\ UNCHANGED <<decoder_vars, src, expect, fed, last, out, log, feeds, calls, was_reset>>

HasMetadata ==
    /\ Unobserved
    /\ codec' = Observed("has_metadata", [kind |-> "ok", val |-> has_metadata(codec.file)])
    /\ UNCHANGED <<decoder_vars, src, expect, fed, last, out, log, feeds, calls, was_reset>>

Read ==
    /\ Unobserved
    /\ \E r \in {read(codec.file)} :
        codec' = Observed("read", IF r.ok THEN [kind |-> "ok", val |-> r] ELSE Failed)
    /\ UNCHANGED <<decoder_vars, src, expect, fed, last, out, log, feeds, calls, was_reset>>

Decode ==
    /\ Unobserved
    /\ codec.cut # "cut"
    /\ \E r \in {decode(codec.file)} :
        codec' = Observed("decode", IF r.ok THEN [kind |-> "ok", val |-> r.samples]
                                    ELSE Failed)
    /\ UNCHANGED <<decoder_vars, src, expect, fed, last, out, log, feeds, calls, was_reset>>

\* a caller of the streaming decoder: the whole file in one feed, then next_frame
\* until it returns no frame
RECURSIVE Drain(_, _)
Drain(d, acc) ==
    LET Next_(r) ==
            IF r.kind = "frame" THEN Drain(r.d, acc \o r.samples)
            ELSE IF r.kind = "none" /\ r.d.state = "Finished"
            THEN [kind |-> "ok", val |-> acc]
            ELSE Failed
    IN  Next_(next_frame(d))

StreamFile(bytes) == Drain(feed(NewDecoder, bytes).d, <<>>)

Stream ==
    /\ Unobserved
    /\ codec.cut # "cut"
    /\ \E r \in {StreamFile(codec.file)} : codec' = Observed("stream", r)
    /\ UNCHANGED <<decoder_vars, src, expect, fed, last, out, log, feeds, calls, was_reset>>

\* the first byte of the stored CRC-32 is changed
CorruptCrc ==
    /\ Unobserved
    /\ codec.cut = "whole"
    /\ Len(codec.file) >= HeaderEnd
    /\ codec' = [codec EXCEPT !.op = "corrupt", !.arg = <<>>, !.res = Failed,
                              !.prev = codec.file,
                              !.file = Patch(codec.file, CrcField,
                                             (codec.file[CrcField + 1] + 1) % 256, 1),
                              !.cut = "crc"]
    /\ UNCHANGED <<decoder_vars, src, expect, fed, last, out, log, feeds, calls, was_reset>>

Truncate ==
    /\ Unobserved
    /\ codec.cut = "whole"
    /\ \E n \in 0..(Len(codec.file) - 1) :
        codec' = [codec EXCEPT !.op = "truncate", !.arg = <<>>, !.res = Failed,
                               !.prev = codec.file, !.file = Slice(codec.file, 0, n),
                               !.cut = "cut"]
    /\ UNCHANGED <<decoder_vars, src, expect, fed, last, out, log, feeds, calls, was_reset>>

AppendBytes ==
    /\ Unobserved
    /\ codec.cut = "whole"
    /\ \E t \in Trailing :
        codec' = [codec EXCEPT !.op = "append", !.arg = t, !.res = Failed,
                               !.prev = codec.file, !.file = codec.file \o t,
                               !.cut = "padded"]
    /\ UNCHANGED <<decoder_vars, src, expect, fed, last, out, log, feeds, calls, was_reset>>

ContainerNext ==
    \/ UpdateMetadata \/ StripMetadata \/ Validate \/ HasMetadata \/ Read \/ Decode
    \/ Stream \/ Truncate \/ AppendBytes \/ CorruptCrc

ContainerSpec == ContainerInit /\ [][ContainerNext]_vars

\* the caller holds an encoder's output, with no change but metadata edits
Intact == codec.phase = "file" /\ codec.kind \in {"lossless", "lossy"} /\ codec.cut = "whole"

\* C13: update_metadata and strip_metadata on an encoder's output, whatever
\* its metadata, return the input's bytes up to where its metadata starts (the
\* end of the frames the TOC lists, extra being empty) with
\* only the meta_size field at offset 62 changed, to the length of the new
\* metadata, then the new metadata and no more; the stored CRC-32 is the same
\* and the result decodes as the input does
UpdateKeepsAudio ==
    LET Kept(b, a, meta_offset) ==
            /\ b.ok /\ a.ok
            /\ MetaOffset(b.header) = meta_offset
            /\ Slice(codec.prev, meta_offset, Len(b.metadata)) = b.metadata
            /\ Len(codec.file) = meta_offset + Len(codec.arg)
            /\ \A i \in 1..meta_offset :
                    (i <= MetaSizeField \/ i > MetaSizeField + 8)
                        => codec.file[i] = codec.prev[i]
            /\ U64At(codec.file, MetaSizeField) = Len(codec.arg)
            /\ Slice(codec.file, meta_offset, Len(codec.arg)) = codec.arg
            /\ a.metadata = codec.arg
            /\ a.header.data_crc32 = b.header.data_crc32
            /\ decode(codec.file) = decode(codec.prev)
        Before(b) ==
            Kept(b, read(codec.file),
                 IF b.ok THEN HeaderEnd + 4 + TocEntrySize * Len(b.toc)
                              + b.header.data_size + b.header.extra_size
                 ELSE 0)
    IN  (Intact /\ codec.op \in {"update", "strip"})
            => codec.res.kind = "ok" /\ Before(read(codec.prev))

\* C13: the second edit of a lossy file gives it longer metadata, and the file
\* still decodes to samples
MetadataReplaced ==
    /\ Intact /\ codec.kind = "lossy" /\ codec.op = "update" /\ codec.edits = 2
    /\ codec.arg = <<1, 2>> /\ Len(codec.prev) < Len(codec.file)
    /\ read(codec.prev).metadata = <<7>>
    /\ decode(codec.file).ok /\ decode(codec.file).samples # <<>>

ZeroChannelsRejected ==
    LET zero_channels == Len(codec.file) >= HeaderEnd /\ codec.file[ChannelsField + 1] = 0
    IN  (codec.phase = "file" /\ codec.op = "decode" /\ zero_channels)
            => codec.res.kind = "err"

\* the file with the CRC-32 of its DATA chunk stored in the header
Repaired(bytes) ==
    LET h == read_header(bytes)
    IN  [i \in 1..Len(bytes) |->
            IF i > CrcField /\ i <= CrcField + 4
            THEN Crc32Le(Slice(bytes, 4 + h.header_size + h.toc_size, h.data_size))[i - CrcField]
            ELSE bytes[i]]

\* C21: with only the stored CRC-32 of an encoder's output changed, validate is
\* false, and decode and the streaming decoder succeed with the samples they
\* return for the file with the right CRC-32
DecodeIgnoresCrc ==
    LET Same(good) ==
            /\ codec.op = "validate" => ~codec.res.val /\ validate(good)
            /\ codec.op = "decode" =>
                    /\ codec.res.kind = "ok"
                    /\ decode(good) = [ok |-> TRUE, samples |-> codec.res.val]
            /\ codec.op = "stream" => codec.res.kind = "ok" /\ StreamFile(good) = codec.res
    IN  (codec.phase = "file" /\ codec.kind \in {"lossless", "lossy"} /\ codec.cut = "crc"
            /\ codec.op \in {"validate", "decode", "stream"})
                => Same(Repaired(codec.file))

\* C21: a lossless file with a wrong CRC-32 is streamed to samples
CorruptFileStreamed ==
    /\ codec.phase = "file" /\ codec.kind = "lossless" /\ codec.cut = "crc"
    /\ codec.op = "stream" /\ codec.res.kind = "ok" /\ Len(codec.res.val) = 4
    /\ ~validate(codec.file)

\* the 8 bytes of the meta_size field are all 0
MetaSizeZero(bytes) == \A i \in (MetaSizeField + 1)..(MetaSizeField + 8) : bytes[i] = 0

\* C25: has_metadata is false exactly for a byte string shorter than 70 bytes or
\* with meta_size 0 at offset 62; a stripped file has meta_size 0, no metadata
\* for has_metadata and empty metadata for the reader, and a file encoded or
\* updated with metadata that is not empty has metadata for has_metadata
HasMetadataExact ==
    /\ (codec.phase = "file" /\ codec.op = "has_metadata")
            => (~codec.res.val <=> (Len(codec.file) < HeaderEnd \/ MetaSizeZero(codec.file)))
    /\ (codec.phase = "file" /\ codec.op = "strip" /\ codec.res.kind = "ok")
            => MetaSizeZero(codec.file) /\ ~has_metadata(codec.file)
    /\ (Intact /\ codec.op = "strip")
            => codec.res.kind = "ok" /\ read(codec.file).metadata = <<>>
    /\ (Intact /\ codec.op = "update" /\ codec.arg # <<>>) => has_metadata(codec.file)
    /\ (Intact /\ codec.op = "none" /\ read(codec.file).metadata # <<>>)
            => has_metadata(codec.file)

\* C25: has_metadata is asked of a byte string that ends inside the meta_size
\* field, cut from a file that has metadata
AskedInsideMetaSize ==
    /\ codec.phase = "file" /\ codec.op = "has_metadata" /\ codec.cut = "cut"
    /\ Len(codec.file) >= HEADER_SIZE /\ Len(codec.file) < HeaderEnd
    /\ codec.file[MetaSizeField + 1] = 1
    /\ ~codec.res.val

\* C17: no call on any byte string indexes or slices outside its input: every
\* call returns Ok or Err
NeverPanics == codec.phase = "file" => codec.res.kind # "panic"

(***************************************************************************)
(* The integer kernels on their own: the Rice codec, the Rice parameter    *)
(* estimate and the fixed predictors, applied to every residual array      *)
(* within the bounds with every parameter 0..15 (an order when it is at    *)
(* most 4).                                                                *)
(***************************************************************************)
MaxResiduals == 2
\* zero, the smallest values, values around the quotient cap at k = 0 and a
\* value whose quotient passes the cap at every k
KernelValues == {0, 1, -1, 127, 128, -129, 300, Pow2(23)}
MaxRiceParameter == 15

\* fixed_predictor_residuals reads samples[0] for the orders 1 to 4
fixed_predictor_panics(samples, order) == order \in 1..4 /\ samples = <<>>

Values(r, p) == [phase |-> "kernel", r |-> r, p |-> p, op |-> "none", res |-> Failed]

KernelInit ==
    /\ buffer = NewDecoder.buffer
    /\ state = NewDecoder.state
    /\ header = NewDecoder.header
    /\ toc = NewDecoder.toc
    /\ current_frame = NewDecoder.current_frame
    /\ data_offset = NewDecoder.data_offset
    /\ lossy_decoder = NewDecoder.lossy_decoder
    /\ is_lossy = NewDecoder.is_lossy
    /\ skipped_preroll = NewDecoder.skipped_preroll
    /\ src = [kind |-> "none", bytes |-> <<>>]
    /\ expect = Err
    /\ fed = 0
    /\ last = NoCall
    /\ out = <<>>
    /\ log = <<>>
    /\ feeds = 0
    /\ calls = {}
    /\ was_reset = FALSE
    /\ codec \in {Values(r, p) : r \in SeqsUpTo(KernelValues, MaxResiduals),
                                p \in 0..MaxRiceParameter}

RiceEncode ==
    /\ codec.op = "none"
    /\ codec' = [codec EXCEPT !.op = "encode_i32", !.res = Ok(encode_i32(codec.r, codec.p))]
    /\ UNCHANGED <<decoder_vars, src, expect, fed, last, out, log, feeds, calls, was_reset>>

RiceDecode ==
    /\ codec.op = "encode_i32"
    /\ codec' = [codec EXCEPT !.op = "decode_i32",
                              !.res = [kind |-> "ok",
                                       val |-> decode_i32(codec.res.bytes, codec.p,
                                                          Len(codec.r))]]
    /\ UNCHANGED <<decoder_vars, src, expect, fed, last, out, log, feeds, calls, was_reset>>

\* estimate the parameter, then encode and decode with it
EstimateRice ==
    /\ codec.op = "none"
    /\ \E k \in {estimate_rice_parameter_i32(codec.r)} :
        codec' = [codec EXCEPT !.op = "estimate",
                               !.res = [kind |-> "ok", k |-> k,
                                        val |-> decode_i32(encode_i32(codec.r, k), k,
                                                           Len(codec.r))]]
    /\ UNCHANGED <<decoder_vars, src, expect, fed, last, out, log, feeds, calls, was_reset>>

FixedResiduals ==
    /\ codec.op = "none"
    /\ codec.p <= 4
    /\ codec' = [codec EXCEPT !.op = "residuals",
                              !.res = IF fixed_predictor_panics(codec.r, codec.p) THEN Panic
                                      ELSE [kind |-> "ok",
                                            val |-> fixed_predictor_residuals(codec.r,
                                                                              codec.p)]]
    /\ UNCHANGED <<decoder_vars, src, expect, fed, last, out, log, feeds, calls, was_reset>>

\* Decoder::reconstruct_fixed and StreamingDecoder::reconstruct_fixed, which have
\* the same body
FixedReconstruct ==
    /\ codec.op = "residuals"
    /\ codec.res.kind = "ok"
    /\ codec' = [codec EXCEPT !.op = "reconstruct",
                              !.res = [kind |-> "ok", residuals |-> codec.res.val,
                                       val |-> reconstruct_fixed(codec.p, codec.res.val,
                                                                 Len(codec.r))]]
    /\ UNCHANGED <<decoder_vars, src, expect, fed, last, out, log, feeds, calls, was_reset>>

KernelNext == RiceEncode \/ RiceDecode \/ EstimateRice \/ FixedResiduals \/ FixedReconstruct

KernelSpec == KernelInit /\ [][KernelNext]_vars

\* C22: decoding the Rice code of any residual array with the parameter it was
\* coded with gives the array back
RiceRoundTrip ==
    (codec.phase = "kernel" /\ codec.op = "decode_i32") => codec.res.val = codec.r

\* C23: the estimated Rice parameter is within 0..15, 4 for an empty array and 0
\* for an all-zero one, leaves no quotient above the cap, and the array comes
\* back from the code made with it
EstimateKeepsQuotients ==
    (codec.phase = "kernel" /\ codec.op = "estimate") =>
        /\ codec.res.k \in 0..MaxRiceParameter
        /\ codec.r = <<>> => codec.res.k = 4
        /\ (codec.r # <<>> /\ MaxAbs(codec.r) = 0) => codec.res.k = 0
        /\ (2 * MaxAbs(codec.r)) \div Pow2(codec.res.k) <= RiceQuotientCap
        /\ codec.res.val = codec.r

\* C24: reconstruct_fixed applied to the residuals of any array, for any order
\* 0..4, gives the array back
FixedRoundTrip ==
    /\ (codec.phase = "kernel" /\ codec.op = "residuals") => codec.res.kind = "ok"
    /\ (codec.phase = "kernel" /\ codec.op = "reconstruct") => codec.res.val = codec.r

\* the p-th order finite difference of s at the 0-based index i
FiniteDifference(s, i, p) ==
    CASE p = 0 -> At(s, i)
      [] p = 1 -> At(s, i) - At(s, i - 1)
      [] p = 2 -> At(s, i) - 2 * At(s, i - 1) + At(s, i - 2)
      [] p = 3 -> At(s, i) - 3 * At(s, i - 1) + 3 * At(s, i - 2) - At(s, i - 3)
      [] OTHER -> At(s, i) - 4 * At(s, i - 1) + 6 * At(s, i - 2) - 4 * At(s, i - 3)
                  + At(s, i - 4)

\* C30: the first p residuals of a fixed predictor of order p are the first p
\* samples, and each later residual is the p-th order finite difference
WarmUpPassesThrough ==
    (codec.phase = "kernel" /\ codec.op = "residuals" /\ codec.res.kind = "ok") =>
        \A i \in 0..(Len(codec.r) - 1) :
            At(codec.res.val, i) = IF i < codec.p THEN At(codec.r, i)
                                   ELSE FiniteDifference(codec.r, i, codec.p)

(***************************************************************************)
(* streaming/encoder.rs: StreamingEncoder as a record e of its fields, and *)
(* its methods as functions that give the updated record and the result.   *)
(***************************************************************************)
NewEncoder(sample_rate, channels, level) ==
    [sample_rate |-> sample_rate, channels |-> channels, bit_depth |-> 16,
     compression_level |-> level, sample_buffer |-> <<>>, pending_frames |-> <<>>,
     total_samples |-> 0, frame_index |-> 0]

EncodedFrame(index, timestamp_ms, data, samples) ==
    [index |-> index, timestamp_ms |-> timestamp_ms, data |-> data, samples |-> samples]

serialize_channel(ch, frame_type) ==
    CASE frame_type = FT_Silence -> <<>>
      [] frame_type = FT_Raw \/ frame_type = FT_Transform -> ch.residuals
      [] OTHER ->
            <<ch.rice_parameter>>
            \o Flatten([i \in 1..Len(ch.predictor_coeffs) |-> I32ToLe(ch.predictor_coeffs[i])])
            \o ch.residuals

\* the first frame of the one-shot encoding of the samples, read back and
\* serialized again
encode_frame_data(e, samples) ==
    LET Serialize(frame) ==
            <<frame.frame_type>> \o ToLe(frame.frame_samples, 4) \o <<frame.flags>>
            \o Flatten([c \in 1..Len(frame.channels) |->
                    LET ch_data == serialize_channel(frame.channels[c],
                                                     FrameTypeFrom(frame.frame_type))
                    IN  ToLe(Len(ch_data), 4) \o ch_data])
        ReadBack(file) ==
            IF ~file.ok THEN Err
            ELSE IF file.frames = <<>> THEN Err
            ELSE [ok |-> TRUE, data |-> Serialize(file.frames[1])]
    IN  ReadBack(read(Encode(samples, e.sample_rate, e.channels, e.bit_depth,
                         e.compression_level, None, <<>>)))

\* (total_samples as f64 / sample_rate as f64 * 1000.0) as u32
TimestampMs(e) == (e.total_samples * 1000) \div e.sample_rate

\* the samples drained from the buffer are gone when their frame fails to encode
RECURSIVE try_encode_frames(_)
try_encode_frames(e) ==
    LET frame_samples == e.sample_rate * e.channels
        Drained == [e EXCEPT !.sample_buffer =
                        SubSeq(e.sample_buffer, frame_samples + 1, Len(e.sample_buffer))]
        Pushed(encoded) ==
            IF ~encoded.ok THEN [ok |-> FALSE, e |-> Drained]
            ELSE try_encode_frames(
                    [Drained EXCEPT
                        !.pending_frames =
                            Append(e.pending_frames,
                                   EncodedFrame(e.frame_index, TimestampMs(e), encoded.data,
                                                e.sample_rate)),
                        !.total_samples = e.total_samples + e.sample_rate,
                        !.frame_index = e.frame_index + 1])
    IN  IF Len(e.sample_buffer) < frame_samples THEN [ok |-> TRUE, e |-> e]
        ELSE Pushed(encode_frame_data(e, SubSeq(e.sample_buffer, 1, frame_samples)))

push_samples(e, samples) ==
    try_encode_frames([e EXCEPT !.sample_buffer = e.sample_buffer \o samples])

\* StreamingEncoder::next_frame
encoder_next_frame(e) ==
    IF e.pending_frames = <<>> THEN [e |-> e, frame |-> None]
    ELSE [e |-> [e EXCEPT !.pending_frames = Tail(e.pending_frames)],
          frame |-> Some(Head(e.pending_frames))]

flush(e) ==
    LET samples_per_channel == Len(e.sample_buffer) \div e.channels
        Flushed(frame_data) ==
            IF ~frame_data.ok THEN [ok |-> FALSE, e |-> e]
            ELSE [ok |-> TRUE,
                  frame |-> Some(EncodedFrame(e.frame_index, TimestampMs(e), frame_data.data,
                                              samples_per_channel)),
                  e |-> [e EXCEPT !.total_samples = e.total_samples + samples_per_channel,
                                  !.frame_index = e.frame_index + 1,
                                  !.sample_buffer = <<>>]]
    IN  IF e.sample_buffer = <<>> THEN [ok |-> TRUE, frame |-> None, e |-> e]
        ELSE Flushed(encode_frame_data(e, e.sample_buffer))

finalize(e, metadata) ==
    LET Build(f, frames) ==
            LET toc_data ==
                    ToLe(Len(frames), 4)
                    \o Flatten([i \in 1..Len(frames) |->
                            ToLe(frames[i].index, 4)
                            \o ToLe(SumSeq([j \in 1..(i - 1) |-> Len(frames[j].data)]), 8)
                            \o ToLe(Len(frames[i].data), 4)
                            \o ToLe(frames[i].timestamp_ms, 4)])
                data_chunk == Flatten([i \in 1..Len(frames) |-> frames[i].data])
            IN  [ok |-> TRUE,
                 e |-> [f.e EXCEPT !.pending_frames = <<>>],
                 bytes |->
                    MAGIC \o <<1, 1>> \o ToLe(0, 2) \o ToLe(e.sample_rate, 4)
                    \o <<e.channels, e.bit_depth>> \o ToLe(Len(frames), 8)
                    \o <<e.compression_level>> \o <<0, 0, 0>> \o Crc32Le(data_chunk)
                    \o ToLe(66, 8) \o ToLe(Len(toc_data), 8) \o ToLe(Len(data_chunk), 8)
                    \o ToLe(0, 8) \o ToLe(Len(metadata), 8)
                    \o toc_data \o data_chunk \o metadata]
        Flushed(f) ==
            IF ~f.ok THEN [ok |-> FALSE, e |-> e]
            ELSE Build(f, IF f.frame.ok THEN Append(e.pending_frames, f.frame.val)
                          ELSE e.pending_frames)
    IN  Flushed(flush(e))

(***************************************************************************)
(* The streaming encoder as a state machine: an encoder is made, samples   *)
(* are pushed in chunks, frames are taken with next_frame, and the run     *)
(* ends with finalize.                                                     *)
(***************************************************************************)
MaxPushes == 3
MaxChunk == 2
PushedValues == {0, 200}
\* a sample rate above the largest frame the Reader accepts
HighRate == MaxFrameSamples + 1

\* [sample_rate, channels, compression level]
Encoders ==
    { NewEncoder(1, 1, 5), NewEncoder(3, 1, 5), NewEncoder(1, 2, 5), NewEncoder(2, 1, 0),
      NewEncoder(HighRate, 1, 5) }

\* the chunks pushed: short ones, and one second of silence at the high rate
Chunks(e) ==
    IF e.sample_rate > MaxFrameSamples THEN {[i \in 1..e.sample_rate |-> 0]}
    ELSE SeqsUpTo(PushedValues, MaxChunk) \ {<<>>}

\* pushed counts the interleaved samples pushed, held is the samples accepted
\* whose frame was not taken, taken counts the frames taken
Encoding(e) ==
    [phase |-> "encoder", enc |-> e, pushed |-> 0, held |-> <<>>, taken |-> 0,
     pushes |-> 0, finalized |-> FALSE, op |-> "none", res |-> Failed]

EncoderInit ==
    /\ buffer = NewDecoder.buffer
    /\ state = NewDecoder.state
    /\ header = NewDecoder.header
    /\ toc = NewDecoder.toc
    /\ current_frame = NewDecoder.current_frame
    /\ data_offset = NewDecoder.data_offset
    /\ lossy_decoder = NewDecoder.lossy_decoder
    /\ is_lossy = NewDecoder.is_lossy
    /\ skipped_preroll = NewDecoder.skipped_preroll
    /\ src = [kind |-> "none", bytes |-> <<>>]
    /\ expect = Err
    /\ fed = 0
    /\ last = NoCall
    /\ out = <<>>
    /\ log = <<>>
    /\ feeds = 0
    /\ calls = {}
    /\ was_reset = FALSE
    /\ codec \in {Encoding(e) : e \in Encoders}

PushSamples ==
    /\ ~codec.finalized
    /\ codec.pushes < MaxPushes
    /\ \E samples \in Chunks(codec.enc) :
        \E r \in {push_samples(codec.enc, samples)} :
            codec' = [codec EXCEPT !.enc = r.e, !.op = "push_samples",
                                   !.res = IF r.ok THEN [kind |-> "ok"] ELSE Failed,
                                   !.pushed = codec.pushed + Len(samples),
                                   !.held = IF r.ok THEN codec.held \o samples
                                            ELSE codec.held,
                                   !.pushes = codec.pushes + 1]
    /\ UNCHANGED <<decoder_vars, src, expect, fed, last, out, log, feeds, calls, was_reset>>

EncoderNextFrame ==
    /\ ~codec.finalized
    /\ \E r \in {encoder_next_frame(codec.enc)} :
        codec' = [codec EXCEPT
                    !.enc = r.e, !.op = "next_frame",
                    !.res = [kind |-> "ok", frame |-> r.frame],
                    !.taken = codec.taken + (IF r.frame.ok THEN 1 ELSE 0),
                    !.held = IF r.frame.ok
                             THEN SubSeq(codec.held,
                                         codec.enc.sample_rate * codec.enc.channels + 1,
                                         Len(codec.held))
                             ELSE codec.held]
    /\ UNCHANGED <<decoder_vars, src, expect, fed, last, out, log, feeds, calls, was_reset>>

Finalize ==
    /\ ~codec.finalized
    /\ \E metadata \in {<<>>, <<7>>} :
        \E r \in {finalize(codec.enc, metadata)} :
            codec' = [codec EXCEPT !.enc = r.e, !.op = "finalize", !.finalized = TRUE,
                                   !.res = IF r.ok THEN Ok(r.bytes) ELSE Failed]
    /\ UNCHANGED <<decoder_vars, src, expect, fed, last, out, log, feeds, calls, was_reset>>

EncoderNext == PushSamples \/ EncoderNextFrame \/ Finalize

EncoderSpec == EncoderInit /\ [][EncoderNext]_vars

\* C27: a Ready decoder becomes Finished by next_frame exactly when every TOC
\* frame has been returned, and by decode_available; a Finished decoder stays
\* Finished and unchanged under feed, next_frame and decode_available, which
\* return false, None and no samples
FinishedAfterLastFrame ==
    [][/\ (state = "Ready" /\ last'.op = "next_frame")
            => (state' = "Finished" <=> current_frame >= Len(toc))
       /\ (state = "Ready" /\ last'.op = "decode_available"
                /\ current_frame >= Len(toc))
            => state' = "Finished"
       /\ (state = "Finished" /\ last'.op \in {"feed", "next_frame", "decode_available"})
            => /\ UNCHANGED decoder_vars
               /\ last'.samples = <<>>
               /\ last'.kind = CASE last'.op = "feed" -> "false"
                                  [] last'.op = "next_frame" -> "none"
                                  [] OTHER -> "samples"]_vars

\* C28: whenever the decoder is Ready its TOC holds the entries the file
\* declares, once each and in file order
TocStoredOnce ==
    (state = "Ready" /\ header.ok /\ header.val.toc_size >= 4) =>
        /\ Len(toc) = U32At(buffer, HeaderEnd)
        /\ \A i \in 1..Len(toc) :
                toc[i] = TocEntryAt(buffer, HeaderEnd + 4 + TocEntrySize * (i - 1))

\* C26: while samples are pushed and frames taken, the frames encoded so far are
\* the whole frames of the samples pushed, each of sample_rate samples per
\* channel, less than a frame stays buffered, and next_frame gives the pending
\* frames in order, indices 0, 1, 2, ..., and None when nothing is pending
FramesFollowPushes ==
    (codec.phase = "encoder" /\ ~codec.finalized) =>
        LET e == codec.enc
            frame_samples == e.sample_rate * e.channels
        IN  /\ e.frame_index = codec.pushed \div frame_samples
            /\ codec.taken + Len(e.pending_frames) = e.frame_index
            /\ Len(e.sample_buffer) < frame_samples
            /\ \A i \in 1..Len(e.pending_frames) :
                /\ e.pending_frames[i].index = codec.taken + i - 1
                /\ e.pending_frames[i].samples = e.sample_rate
                /\ U32At(e.pending_frames[i].data, 1) = e.sample_rate
            /\ codec.op = "next_frame" =>
                IF codec.res.frame.ok THEN codec.res.frame.val.index = codec.taken - 1
                ELSE codec.taken = e.frame_index

\* C29: the file finalize builds is read by the Reader, passes validate, holds
\* each frame in the bytes the Writer gives it, and decodes to the 16-bit
\* quantization of the samples whose frames were not taken
FinalizedFileDecodes ==
    (codec.phase = "encoder" /\ codec.op = "finalize") =>
        /\ codec.res.kind = "ok"
        /\ read(codec.res.bytes).ok
        /\ validate(codec.res.bytes)
        /\ \A i \in 1..Len(read(codec.res.bytes).frames) :
            LET t == read(codec.res.bytes).toc[i]
                first == HeaderEnd + 4 + TocEntrySize * Len(read(codec.res.bytes).toc)
            IN  Slice(codec.res.bytes, first + t.byte_offset, t.frame_size)
                    = write_frame(read(codec.res.bytes).frames[i])
        /\ decode(codec.res.bytes).ok
        /\ decode(codec.res.bytes).samples = Quantized(codec.held)

=============================================================================
